---------------------------- MODULE Spec2Model ----------------------------
(***************************************************************************)
(* Query session of the PyCon JP image search front end.                   *)
(*                                                                         *)
(* The module models the React hook useImageSearch (the Query Session),   *)
(* the store queries of lib/search.ts it calls (ranked retrieval, stored   *)
(* descriptor lookup, multi-face fusion) and the asynchronous structure    *)
(* of its handlers: every handler is split at its await points, so that    *)
(* the encoder call and the store query of one operation can interleave    *)
(* with the steps of another.  A callback reads the React state of the     *)
(* render in which it was created; an operation therefore records, when it *)
(* starts, the state values its closure captured.                          *)
(*                                                                         *)
(* Scores are cosine similarities in hundredths (an integer in -100..100). *)
(* A result item is [id, score, den]: its score is score/den hundredths.   *)
(***************************************************************************)
EXTENDS Integers, Sequences, FiniteSets, TLC

\* ------------------------------------------------------------------------
\* Bounds of the model
\* ------------------------------------------------------------------------

\* Operations (submits and loadMore calls) started in one behaviour.
MaxOps == 3

\* Operations that may be unresolved at the same time.
MaxInFlight == 2

\* Calls of setSelectedEvents in one behaviour.
MaxFilterChanges == 1

\* Photos of the store beyond one full page.
NumExtra == 8

\* ------------------------------------------------------------------------
\* Program constants
\* ------------------------------------------------------------------------

PAGE_SIZE == 20

\* ------------------------------------------------------------------------
\* Optional values (null | value)
\* ------------------------------------------------------------------------

None == {}
Some(x) == {x}
ValueOf(o) == CHOOSE x \in o : TRUE

Min(a, b) == IF a < b THEN a ELSE b
Max(a, b) == IF a > b THEN a ELSE b

\* ------------------------------------------------------------------------
\* The descriptor store: a fixed, finite corpus
\* ------------------------------------------------------------------------

NumPhotos == PAGE_SIZE + NumExtra
Photos == 1..NumPhotos

Events == {"e1", "e2"}
Tags == {"person"}

\* data.images.event_name
EventOf(p) == IF p % 4 = 0 THEN "e2" ELSE "e1"

\* data.object_detections: the labels detected on a photo
TagsOf(p) == IF p % 3 = 0 THEN {"person"} ELSE {}

\* data.image_embeddings: photo 1 has no whole-image descriptor
HasEmbedding(p) == p # 1

\* data.face_detections: the photos with at least one detected face
HasFace(p) == p % 7 # 0

\* Whole-image descriptors: the text query, the uploaded image, stored ones.
TextQueries == {"cat", " "}
Blobs == {1}
EncodeTextOf(q) == 1
EncodeImageOf(b) == 2
StoredEmbeddingOf(p) == 2 + p

\* Face descriptors of the face instances a user can pick.
Faces == {1, 2}

\* list_cosine_similarity(e.embedding, vec), in hundredths
Score(d, p) == ((p * (2 * d + 5)) % 37) * 5 - 80

\* MAX(list_cosine_similarity(f.embedding, vec)) over the faces of photo p
FaceScore(f, p) == ((p * (8 * f + 3)) % 37) * 5 - 80

\* WHERE i.event_name IN (...), JOIN on the tag labels
PassesFilters(p, eventNames, tagNames) ==
    /\ (eventNames # {} => EventOf(p) \in eventNames)
    /\ (tagNames # {} => TagsOf(p) \cap tagNames # {})

\* ORDER BY score DESC: the photos of S, best score first (the store breaks
\* a tie by the lower id; the scores above are distinct within one query).
RECURSIVE OrderByScoreDesc(_, _)
OrderByScoreDesc(S, sc) ==
    IF S = {} THEN <<>>
    ELSE LET best == CHOOSE p \in S :
                        \A q \in S : sc[q] < sc[p] \/ (sc[q] = sc[p] /\ q >= p)
         IN  <<[id |-> best, score |-> sc[best], den |-> 1]>>
                 \o OrderByScoreDesc(S \ {best}, sc)

\* The rows of data.image_embeddings JOIN data.images, ranked for descriptor
\* 1..n, and those of data.face_detections grouped by photo, ranked for face
\* descriptor 1..n (tables of the rankings, computed once).
RECURSIVE ImageRows(_)
ImageRows(n) ==
    IF n = 0 THEN <<>>
    ELSE Append(ImageRows(n - 1),
                OrderByScoreDesc({p \in Photos : HasEmbedding(p)},
                                 [p \in Photos |-> Score(n, p)]))

RECURSIVE FaceRows(_)
FaceRows(n) ==
    IF n = 0 THEN <<>>
    ELSE Append(FaceRows(n - 1),
                OrderByScoreDesc({p \in Photos : HasFace(p)},
                                 [p \in Photos |-> FaceScore(n, p)]))

RankedImages == ImageRows(2 + NumPhotos)
RankedFaces == FaceRows(Cardinality(Faces))

WhereLimitIgnoringOffset(rows, eventNames, tagNames, limit, offset) ==
    LET kept == SelectSeq(rows, LAMBDA r : PassesFilters(r.id, eventNames, tagNames))
    IN  SubSeq(kept, 1, Min(limit, Len(kept)))

\* WHERE ... ORDER BY score DESC LIMIT limit OFFSET offset
WhereLimitOffset(rows, eventNames, tagNames, limit, offset) ==
    LET kept == SelectSeq(rows, LAMBDA r : PassesFilters(r.id, eventNames, tagNames))
    IN  SubSeq(kept, offset + 1, Min(offset + limit, Len(kept)))

\* searchByEmbedding(conn, queryEmbedding, {limit, offset, eventNames, tagNames}, config)
searchByEmbedding(d, limit, offset, eventNames, tagNames) ==
    WhereLimitOffset(RankedImages[d], eventNames, tagNames, limit, offset)

\* getImageEmbedding(conn, imageId, modelName): null when no row matches
getImageEmbedding(imageId) ==
    IF imageId \in Photos /\ HasEmbedding(imageId)
    THEN Some(StoredEmbeddingOf(imageId)) ELSE None

\* searchByFaceEmbedding(conn, faceEmbedding, {limit, offset, eventNames, tagNames})
searchByFaceEmbedding(f, limit, offset, eventNames, tagNames) ==
    WhereLimitOffset(RankedFaces[f], eventNames, tagNames, limit, offset)

\* Insertion order of the Map imageScoreMap: the ids of the per-face lists,
\* list after list, each id at its first occurrence.
RECURSIVE InsertionOrder(_, _, _)
InsertionOrder(perFaceResults, fi, seen) ==
    IF fi > Len(perFaceResults) THEN <<>>
    ELSE LET rows  == perFaceResults[fi]
             fresh == SelectSeq(rows, LAMBDA r : r.id \notin seen)
         IN  fresh \o InsertionOrder(perFaceResults, fi + 1,
                                     seen \cup {rows[k].id : k \in 1..Len(rows)})

\* new Array(numFaces).fill(-1), then entry.scores[fi] = result.score
FaceScoresOf(perFaceResults, id) ==
    [fi \in 1..Len(perFaceResults) |->
        LET rows == perFaceResults[fi]
        IN  IF \E k \in 1..Len(rows) : rows[k].id = id
            THEN rows[CHOOSE k \in 1..Len(rows) : rows[k].id = id].score
            ELSE -100]

RECURSIVE SumSeq(_, _)
SumSeq(f, n) == IF n = 0 THEN 0 ELSE f[n] + SumSeq(f, n - 1)

\* scores.filter((s) => s > 0).length
matchedCount(scores) == Cardinality({fi \in DOMAIN scores : scores[fi] > 0})

\* avgScore * (0.5 + 0.5 * matchRatio)
\*   = (sum / numFaces) * (numFaces + matchedCount) / (2 * numFaces),
\* kept exact as a numerator over the denominator 2 * numFaces^2.
combinedScore(scores) ==
    LET numFaces == Len(scores)
        sum      == SumSeq([fi \in 1..numFaces |-> Max(0, scores[fi])], numFaces)
    IN  [num |-> sum * (numFaces + matchedCount(scores)),
         den |-> 2 * numFaces * numFaces]

\* scored.sort((a, b) => b.combinedScore - a.combinedScore): a stable sort,
\* equal scores keep their insertion order.
SortByCombinedDesc(scored) ==
    LET n == Len(scored)
        Before(j, i) == \/ scored[j].score > scored[i].score
                        \/ (scored[j].score = scored[i].score /\ j < i)
        place == SubSeq([i \in 1..n |->
                            1 + Cardinality({j \in 1..n : Before(j, i)})], 1, n)
    IN  SubSeq([k \in 1..n |-> scored[CHOOSE i \in 1..n : place[i] = k]], 1, n)

\* The fusion of searchByMultipleFaceEmbeddings for numFaces # 1.
FuseFaceResults(perFaceResults, limit) ==
    LET order   == InsertionOrder(perFaceResults, 1, {})
        entries == [k \in 1..Len(order) |->
                       LET scores == FaceScoresOf(perFaceResults, order[k].id)
                           c      == combinedScore(scores)
                       IN  [id |-> order[k].id, score |-> c.num, den |-> c.den,
                            matched |-> matchedCount(scores)]]
        kept    == SelectSeq(entries, LAMBDA e : e.matched # 0)
        scored  == [k \in 1..Len(kept) |->
                       [id |-> kept[k].id, score |-> kept[k].score, den |-> kept[k].den]]
        sorted  == SortByCombinedDesc(scored)
    IN  SubSeq(sorted, 1, Min(limit, Len(sorted)))

searchByMultipleFaceEmbeddingsAlwaysFusing(faceEmbeddings, limit, offset, eventNames, tagNames) ==
    FuseFaceResults(
        [fi \in 1..Len(faceEmbeddings) |->
            searchByFaceEmbedding(faceEmbeddings[fi], limit * 10, 0, eventNames, {})],
        limit)

\* searchByMultipleFaceEmbeddings(conn, faceEmbeddings, {limit, offset, eventNames, tagNames})
searchByMultipleFaceEmbeddings(faceEmbeddings, limit, offset, eventNames, tagNames) ==
    IF Len(faceEmbeddings) = 1
    THEN searchByFaceEmbedding(faceEmbeddings[1], limit, offset, eventNames, tagNames)
    ELSE FuseFaceResults(
             [fi \in 1..Len(faceEmbeddings) |->
                 searchByFaceEmbedding(faceEmbeddings[fi], limit * 10, 0, eventNames, {})],
             limit)

\* ------------------------------------------------------------------------
\* The query session: state of useImageSearch
\* ------------------------------------------------------------------------

VARIABLES
    conn,                   \* the DuckDB connection is open (conn # null)
    modelConfig,            \* the selected model (None: no model, no encoder)
    results,                \* the visible page
    currentEmbedding,       \* whole-image descriptor of the active query
    currentFaceEmbeddings,  \* face descriptors of the active query
    offset,                 \* pagination cursor
    hasMore,
    isSearching,
    message,                \* status message: its template and its numbers
    selectedEvents,         \* the filter set
    inflight,               \* the operations suspended at an await
    nextId,                 \* number of the next call of a hook function
    filterChanges,          \* number of setSelectedEvents calls so far
    last,                   \* history: the operation that resolved last
    latest,                 \* history: the query submitted last
    pub,                    \* history: the submit whose page was published last
    fusion,                 \* a call of the multi-face fusion on given result lists
    encoder,                \* the VisionLanguageEncoder: its models, its loads under way
    encoderHook,            \* state of useEncoder
    handlers,               \* the App's asynchronous handlers suspended at an await
    appLog,                 \* history: the handler calls and the model loads so far
    overlay,                \* the crop overlay of the preview: image box, drag, crop
    tagFilter,              \* the TagFilter component: its props and its state
    faceQuery               \* the App's active face list and the arrays it built

vars == <<conn, modelConfig, results, currentEmbedding, currentFaceEmbeddings,
          offset, hasMore, isSearching, message, selectedEvents, inflight,
          nextId, filterChanges, last, latest, pub, fusion,
          encoder, encoderHook, handlers, appLog, overlay, tagFilter, faceQuery>>

\* The variables of the query session and its history.
sessionVars == <<conn, modelConfig, results, currentEmbedding,
                 currentFaceEmbeddings, offset, hasMore, isSearching, message,
                 selectedEvents, inflight, nextId, filterChanges, last, latest, pub>>

\* The variables outside the query session.
appVars == <<encoder, encoderHook, handlers, appLog>>
\* The variables of the components beside the overlay.
uiVars == <<tagFilter, faceQuery>>
aside == <<fusion, appVars, overlay, uiVars>>

counters == <<nextId, filterChanges>>

session == <<results, currentEmbedding, currentFaceEmbeddings, offset, hasMore,
             isSearching, message, selectedEvents>>

history == <<last, latest, pub>>

Models == {"clip"}

\* The filter sets a user picks, and the optional eventNames argument.
EventChoices == {{}, {"e1"}}

\* The optional eventNames argument: every caller of the hook passes
\* search.selectedEvents.
EventArgs == {Some(selectedEvents)}

SubmitKinds == {"searchByText", "searchByImage", "searchByStoredEmbedding",
                "searchByFace", "searchByFaces"}

\* The variant of the Query Intent a submit function carries.  An operation
\* on a whole-image descriptor records the model of the search configuration
\* it reads (model) and the model whose encoder or stored rows produced its
\* descriptor (embModel); a face query reads neither.
IntentKind(kind) ==
    CASE kind = "searchByText" -> "Text"
      [] kind = "searchByImage" -> "Image"
      [] kind = "searchByStoredEmbedding" -> "StoredDescriptor"
      [] kind \in {"searchByFace", "searchByFaces"} -> "Faces"
      [] OTHER -> "none"

Msg(fmt, n, k) == [fmt |-> fmt, n |-> n, k |-> k]

NoOp == [id |-> 0, kind |-> "none", pc |-> "done", text |-> "", arg |-> 0,
         emb |-> None, faces |-> <<>>, given |-> FALSE, evs |-> {},
         offset |-> 0, resLen |-> 0, lm |-> "", base |-> 0, pageEvs |-> {},
         pageEmb |-> None, pageFaces |-> <<>>, diff |-> FALSE,
         model |-> None, embModel |-> None]

\* query.trim()
Trim(query) == IF query = " " THEN "" ELSE query

\* eventNames ?? selectedEvents
EventsOrSelected(eventNames) ==
    IF eventNames = None THEN selectedEvents ELSE ValueOf(eventNames)

CanStart == nextId <= MaxOps /\ Cardinality(inflight) < MaxInFlight

\* The synchronous head of a submit function: setIsSearching(true) and the
\* first asynchronous call, with the values the closure holds.
StartSubmit(kind, pc, text, arg, emb, faces, eventNames) ==
    LET o == [id |-> nextId, kind |-> kind, pc |-> pc, text |-> text, arg |-> arg,
              emb |-> emb, faces |-> faces, given |-> eventNames # None,
              evs |-> EventsOrSelected(eventNames),
              offset |-> offset, resLen |-> Len(results), lm |-> "",
              base |-> pub.id, pageEvs |-> pub.evs,
              pageEmb |-> pub.emb, pageFaces |-> pub.faces,
              diff |-> pub.id # 0 /\ IntentKind(kind) # IntentKind(pub.kind),
              model |-> IF IntentKind(kind) = "Faces" THEN None ELSE modelConfig,
              embModel |-> IF IntentKind(kind) = "Faces" THEN None ELSE modelConfig]
    IN  /\ CanStart
        /\ isSearching' = TRUE
        /\ inflight' = inflight \cup {o}
        /\ nextId' = nextId + 1
        /\ latest' = [op |-> o, outcome |-> "pending", lmDone |-> FALSE]
        /\ UNCHANGED <<conn, modelConfig, results, currentEmbedding,
                       currentFaceEmbeddings, offset, hasMore, message,
                       selectedEvents, filterChanges, last, pub>>

searchByText(query, eventNames) ==
    /\ conn /\ modelConfig # None
    /\ \/ /\ Trim(query) = ""
          /\ nextId <= MaxOps
          /\ nextId' = nextId + 1
          /\ message' = Msg("Please enter a search query.", 0, 0)
          /\ UNCHANGED <<conn, modelConfig, results, currentEmbedding,
                         currentFaceEmbeddings, offset, hasMore, isSearching,
                         selectedEvents, inflight, filterChanges, history>>
       \/ /\ Trim(query) # ""
          /\ StartSubmit("searchByText", "encodeText", query, 0, None, <<>>, eventNames)

searchByImage(imageBlob, eventNames) ==
    /\ conn /\ modelConfig # None
    /\ StartSubmit("searchByImage", "encodeImage", "", imageBlob, None, <<>>, eventNames)

searchByStoredEmbedding(imageId, eventNames) ==
    /\ conn /\ modelConfig # None
    /\ StartSubmit("searchByStoredEmbedding", "getImageEmbedding", "", imageId,
                   None, <<>>, eventNames)

searchByFace(faceEmbedding, eventNames) ==
    /\ conn
    /\ StartSubmit("searchByFace", "query", "", 0, None, <<faceEmbedding>>, eventNames)

searchByFaces(faceEmbeddings, eventNames) ==
    /\ conn /\ Len(faceEmbeddings) # 0
    /\ StartSubmit("searchByFaces", "query", "", 0, None, faceEmbeddings, eventNames)

\* loadMore: the branch is chosen and the request built from the closure's
\* currentFaceEmbeddings, currentEmbedding, offset, selectedEvents, results.length.
loadMore ==
    /\ conn
    /\ \/ currentFaceEmbeddings # None
       \/ (currentEmbedding # None /\ modelConfig # None)
    /\ CanStart
    /\ LET faces == IF currentFaceEmbeddings # None
                    THEN ValueOf(currentFaceEmbeddings) ELSE <<>>
           o == [id |-> nextId, kind |-> "loadMore", pc |-> "query", text |-> "",
                 arg |-> 0,
                 emb |-> IF currentFaceEmbeddings # None THEN None ELSE currentEmbedding,
                 faces |-> faces, given |-> FALSE, evs |-> selectedEvents,
                 offset |-> offset, resLen |-> Len(results),
                 lm |-> IF currentFaceEmbeddings = None THEN "embedding"
                        ELSE IF Len(faces) = 1 THEN "single face" ELSE "multi face",
                 base |-> pub.id, pageEvs |-> pub.evs,
                 pageEmb |-> pub.emb, pageFaces |-> pub.faces, diff |-> FALSE,
                 model |-> IF currentFaceEmbeddings # None THEN None
                           ELSE modelConfig,
                 embModel |-> IF currentFaceEmbeddings # None THEN None
                              ELSE pub.embModel]
       IN  /\ isSearching' = TRUE
           /\ inflight' = inflight \cup {o}
           /\ nextId' = nextId + 1
    /\ UNCHANGED <<conn, modelConfig, results, currentEmbedding,
                   currentFaceEmbeddings, offset, hasMore, message,
                   selectedEvents, filterChanges, history>>

setSelectedEvents(events) ==
    /\ filterChanges < MaxFilterChanges
    /\ filterChanges' = filterChanges + 1
    /\ selectedEvents' = events
    /\ UNCHANGED <<conn, modelConfig, results, currentEmbedding,
                   currentFaceEmbeddings, offset, hasMore, isSearching, message,
                   inflight, nextId, history>>

\* ------------------------------------------------------------------------
\* Resolution of the awaited calls
\* ------------------------------------------------------------------------

HasMoreAfterAnyHit(hits) == Len(hits) > 0

\* setHasMore(hits.length === PAGE_SIZE)
HasMoreAfter(hits) == Len(hits) = PAGE_SIZE

ReplacePageAppending(prev, hits) == prev \o hits

\* setResults(hits) of the multi-face loadMore
ReplacePage(prev, hits) == hits

\* const hasNew = hits.length > results.length;
\* setHasMore(hasNew && hits.length === newLimit)
HasMoreAfterMultiFace(hits, resLen, newLimit) ==
    Len(hits) > resLen /\ Len(hits) = newLimit

AppendPageReplacing(prev, hits) == hits

\* setResults((prev) => [...prev, ...hits])
AppendPage(prev, hits) == prev \o hits

\* The retrieval a submit function issues once it holds its descriptor.
SubmitHits(o) ==
    CASE o.kind \in {"searchByText", "searchByImage", "searchByStoredEmbedding"} ->
             searchByEmbedding(ValueOf(o.emb), PAGE_SIZE, 0, o.evs, {})
      [] o.kind = "searchByFace" ->
             searchByFaceEmbedding(o.faces[1], PAGE_SIZE, 0, o.evs, {})
      [] o.kind = "searchByFaces" ->
             searchByMultipleFaceEmbeddings(o.faces, PAGE_SIZE, 0, o.evs, {})

SubmitMessage(o, hits) ==
    CASE o.kind = "searchByText" -> Msg("Found N images for \"query\".", Len(hits), 0)
      [] o.kind \in {"searchByImage", "searchByStoredEmbedding"} ->
             Msg("Found N similar images.", Len(hits), 0)
      [] o.kind = "searchByFace" \/ (o.kind = "searchByFaces" /\ Len(o.faces) = 1) ->
             Msg("Found N images with similar faces.", Len(hits), 0)
      [] OTHER -> Msg("Found N images with all K faces.", Len(hits), Len(o.faces))

\* The operation leaves the in-flight set; the history records how it ended.
Finished(o, outcome, n) ==
    /\ inflight' = inflight \ {o}
    /\ last' = [id |-> o.id, kind |-> o.kind, lm |-> o.lm, pc |-> o.pc,
                base |-> o.base, offset |-> o.offset, resLen |-> o.resLen,
                outcome |-> outcome, n |-> n]
    /\ latest' = IF o.id = latest.op.id
                 THEN [latest EXCEPT !.outcome = outcome]
                 ELSE IF o.kind = "loadMore" /\ outcome = "ok"
                      THEN [latest EXCEPT !.lmDone = TRUE]
                      ELSE latest

\* encoder.encodeText / encoder.encodeImage resolves: the retrieval is issued.
encodeResolved(o) ==
    /\ o.pc \in {"encodeText", "encodeImage"}
    /\ LET embedding == IF o.pc = "encodeText" THEN EncodeTextOf(o.text)
                        ELSE EncodeImageOf(o.arg)
       IN  inflight' = (inflight \ {o})
                           \cup {[o EXCEPT !.pc = "query", !.emb = Some(embedding)]}
    /\ UNCHANGED <<conn, modelConfig, session, counters, history>>

getImageEmbeddingResolvedReturningBeforeTry(o) ==
    /\ o.pc = "getImageEmbedding"
    /\ LET embedding == getImageEmbedding(o.arg)
       IN  \/ /\ embedding = None
              /\ message' = Msg("Embedding not found for this image.", 0, 0)
              /\ Finished(o, "not found", 0)
              /\ UNCHANGED <<conn, modelConfig, results, currentEmbedding,
                             currentFaceEmbeddings, offset, hasMore, isSearching,
                             selectedEvents, counters, pub>>
           \/ /\ embedding # None
              /\ inflight' = (inflight \ {o})
                                 \cup {[o EXCEPT !.pc = "query", !.emb = embedding]}
              /\ UNCHANGED <<conn, modelConfig, session, counters, history>>

\* getImageEmbedding resolves: the not-found early return, or the retrieval.
getImageEmbeddingResolved(o) ==
    /\ o.pc = "getImageEmbedding"
    /\ LET embedding == getImageEmbedding(o.arg)
       IN  \/ /\ embedding = None
              /\ message' = Msg("Embedding not found for this image.", 0, 0)
              /\ isSearching' = FALSE
              /\ Finished(o, "not found", 0)
              /\ UNCHANGED <<conn, modelConfig, results, currentEmbedding,
                             currentFaceEmbeddings, offset, hasMore,
                             selectedEvents, counters, pub>>
           \/ /\ embedding # None
              /\ inflight' = (inflight \ {o})
                                 \cup {[o EXCEPT !.pc = "query", !.emb = embedding]}
              /\ UNCHANGED <<conn, modelConfig, session, counters, history>>

EmbeddingAfterSubmitKeptByFaces(o) ==
    IF IntentKind(o.kind) = "Faces" THEN currentEmbedding ELSE o.emb

\* setCurrentEmbedding(embedding) of a whole-image submit,
\* setCurrentEmbedding(null) of a face submit.
EmbeddingAfterSubmit(o) ==
    IF IntentKind(o.kind) = "Faces" THEN None ELSE o.emb

\* The retrieval of a submit resolves: the page is published.
submitResolved(o) ==
    /\ o.pc = "query" /\ o.kind \in SubmitKinds
    /\ LET hits == SubmitHits(o)
       IN  /\ results' = hits
           /\ currentEmbedding' = EmbeddingAfterSubmit(o)
           /\ currentFaceEmbeddings' =
                  IF IntentKind(o.kind) = "Faces" THEN Some(o.faces) ELSE None
           /\ offset' = PAGE_SIZE
           /\ hasMore' = HasMoreAfter(hits)
           /\ message' = SubmitMessage(o, hits)
           /\ selectedEvents' = IF o.given THEN o.evs ELSE selectedEvents
           /\ isSearching' = FALSE
           /\ Finished(o, "ok", Len(hits))
           /\ pub' = o
    /\ UNCHANGED <<conn, modelConfig, counters>>

\* The retrieval of a loadMore resolves.
loadMoreResolved(o) ==
    /\ o.pc = "query" /\ o.kind = "loadMore"
    /\ \/ /\ o.lm = "single face"
          /\ LET hits == searchByFaceEmbedding(o.faces[1], PAGE_SIZE, o.offset, o.evs, {})
             IN  /\ results' = AppendPage(results, hits)
                 /\ offset' = offset + Len(hits)
                 /\ hasMore' = HasMoreAfter(hits)
                 /\ message' = Msg("Showing N images.", o.resLen + Len(hits), 0)
                 /\ Finished(o, "ok", Len(hits))
       \/ /\ o.lm = "multi face"
          /\ LET newLimit == o.offset + PAGE_SIZE
                 hits == searchByMultipleFaceEmbeddings(o.faces, newLimit, 0, o.evs, {})
             IN  /\ results' = ReplacePage(results, hits)
                 /\ offset' = newLimit
                 /\ hasMore' = HasMoreAfterMultiFace(hits, o.resLen, newLimit)
                 /\ message' = Msg("Showing N images.", Len(hits), 0)
                 /\ Finished(o, "ok", Len(hits))
       \/ /\ o.lm = "embedding"
          /\ LET hits == searchByEmbedding(ValueOf(o.emb), PAGE_SIZE, o.offset, o.evs, {})
             IN  /\ results' = AppendPage(results, hits)
                 /\ offset' = offset + Len(hits)
                 /\ hasMore' = HasMoreAfter(hits)
                 /\ message' = Msg("Showing N images.", o.resLen + Len(hits), 0)
                 /\ Finished(o, "ok", Len(hits))
    /\ isSearching' = FALSE
    /\ UNCHANGED <<conn, modelConfig, currentEmbedding, currentFaceEmbeddings,
                   selectedEvents, counters, pub>>

SessionAfterRejectionClearingPage ==
    /\ isSearching' = FALSE
    /\ results' = <<>>
    /\ UNCHANGED <<currentEmbedding, currentFaceEmbeddings, offset, hasMore,
                   message, selectedEvents>>

\* What a rejected await leaves of the session: no setter after the await
\* runs, only the finally block.
SessionAfterRejection ==
    /\ isSearching' = FALSE
    /\ UNCHANGED <<results, currentEmbedding, currentFaceEmbeddings, offset,
                   hasMore, message, selectedEvents>>

\* The awaited call of o (encoder, lookup or store query) rejects.
rejected(o) ==
    /\ SessionAfterRejection
    /\ Finished(o, "failed", 0)
    /\ UNCHANGED <<conn, modelConfig, counters, pub>>

\* useDuckDB publishes the connection; a model is selected and its encoder built.
connReady ==
    /\ ~conn
    /\ conn' = TRUE
    /\ UNCHANGED <<modelConfig, session, inflight, counters, history>>

modelSelected(m) ==
    /\ modelConfig = None
    /\ modelConfig' = Some(m)
    /\ UNCHANGED <<conn, session, inflight, counters, history>>

\* ------------------------------------------------------------------------
\* Specification
\* ------------------------------------------------------------------------

SessionInit ==
    /\ conn = FALSE
    /\ modelConfig = None
    /\ results = <<>>
    /\ currentEmbedding = None
    /\ offset = 0
    /\ hasMore = FALSE
    /\ isSearching = FALSE
    /\ message = Msg("", 0, 0)
    /\ selectedEvents = {}
    /\ currentFaceEmbeddings = None
    /\ inflight = {}
    /\ nextId = 1
    /\ filterChanges = 0
    /\ last = [id |-> 0, kind |-> "none", lm |-> "", pc |-> "done", base |-> 0,
               offset |-> 0, resLen |-> 0, outcome |-> "none", n |-> 0]
    /\ latest = [op |-> NoOp, outcome |-> "none", lmDone |-> FALSE]
    /\ pub = NoOp

\* No call of the fusion under way.
NoFusion == [pc |-> "idle", perFaceResults |-> <<>>, limit |-> 0, out |-> <<>>]

\* useEncoder before a model is selected: no encoder, nothing loaded.
NoEncoder == [exists |-> FALSE, textReady |-> FALSE, visionReady |-> FALSE,
              loads |-> {}]
HookInit == [isTextReady |-> FALSE, isVisionReady |-> FALSE, isLoading |-> FALSE,
             error |-> FALSE]
NoCalls == [calls |-> 0, lastCall |-> "none", imageActions |-> 0,
            visionLoads |-> 0, textLoads |-> 0, ended |-> 0, lastEnd |-> "none"]

\* The crop overlay before any image and any drag.
NoOverlay ==
    [natW |-> 0, natH |-> 0, irW |-> 0, irH |-> 0, fit |-> "fill",
     isDrawing |-> FALSE, start |-> <<0, 0>>, current |-> <<0, 0>>,
     cropRect |-> None, canvas |-> None]

\* The tag filter without tags; no face list built, none active.
NoTagFilter == [tags |-> 0, selectedTags |-> {}, expanded |-> FALSE]
NoFaceQuery == [arrays |-> <<>>, active |-> None, pending |-> {}, calls |-> 0]

UiInit ==
    /\ tagFilter = NoTagFilter
    /\ faceQuery = NoFaceQuery

AppInit ==
    /\ encoder = NoEncoder
    /\ encoderHook = HookInit
    /\ handlers = {}
    /\ appLog = NoCalls

Init ==
    /\ SessionInit
    /\ fusion = NoFusion
    /\ AppInit
    /\ overlay = NoOverlay
    /\ UiInit

\* The inputs of the submit functions.
FaceLists == {<<1>>, <<1, 2>>}
FaceInputs == {1}
StoredIds == {1, 2}

Next ==
    \/ connReady /\ UNCHANGED aside
    \/ \E m \in Models : modelSelected(m) /\ UNCHANGED aside
    \/ \E q \in TextQueries, ev \in EventArgs : searchByText(q, ev) /\ UNCHANGED aside
    \/ \E b \in Blobs, ev \in EventArgs : searchByImage(b, ev) /\ UNCHANGED aside
    \/ \E id \in StoredIds, ev \in EventArgs : searchByStoredEmbedding(id, ev) /\ UNCHANGED aside
    \/ \E f \in FaceInputs, ev \in EventArgs : searchByFace(f, ev) /\ UNCHANGED aside
    \/ \E fs \in FaceLists, ev \in EventArgs : searchByFaces(fs, ev) /\ UNCHANGED aside
    \/ loadMore /\ UNCHANGED aside
    \/ \E ev \in EventChoices : setSelectedEvents(ev) /\ UNCHANGED aside
    \/ \E o \in inflight : encodeResolved(o) /\ UNCHANGED aside
    \/ \E o \in inflight : getImageEmbeddingResolved(o) /\ UNCHANGED aside
    \/ \E o \in inflight : submitResolved(o) /\ UNCHANGED aside
    \/ \E o \in inflight : loadMoreResolved(o) /\ UNCHANGED aside
    \/ \E o \in inflight : rejected(o) /\ UNCHANGED aside

Spec == Init /\ [][Next]_vars

\* ------------------------------------------------------------------------
\* Properties of the query session
\* ------------------------------------------------------------------------

\* An operation left the in-flight set in this step, with the given outcome.
Resolved(outcome) == last'.id # last.id /\ last'.outcome = outcome

\* The descriptor a submit searches with, and the first page its retrieval
\* returns from the store.
ExpectedEmbedding(o) ==
    CASE o.kind = "searchByText" -> Some(EncodeTextOf(o.text))
      [] o.kind = "searchByImage" -> Some(EncodeImageOf(o.arg))
      [] o.kind = "searchByStoredEmbedding" -> getImageEmbedding(o.arg)
      [] OTHER -> None

ExpectedFirstPage(o) == SubmitHits([o EXCEPT !.emb = ExpectedEmbedding(o)])

\* C1: once every operation has resolved, and the query submitted last
\* resolved successfully with no loadMore after it, the page, hasMore, the
\* offset and the active descriptor are those of the query submitted last,
\* whatever the order in which the submitted queries resolved.
C1_LastSubmittedQueryWins ==
    (inflight = {} /\ latest.outcome = "ok" /\ ~latest.lmDone) =>
        LET b    == latest.op
            page == ExpectedFirstPage(b)
        IN  /\ results = page
            /\ hasMore = (Len(page) = PAGE_SIZE)
            /\ offset = PAGE_SIZE
            /\ currentEmbedding = ExpectedEmbedding(b)
            /\ currentFaceEmbeddings =
                   IF IntentKind(b.kind) = "Faces" THEN Some(b.faces) ELSE None

\* The face descriptors of the active query (none for a whole-image query).
ActiveFaces ==
    IF currentFaceEmbeddings = None THEN <<>> ELSE ValueOf(currentFaceEmbeddings)

\* C2: a loadMore started on the page of query A that resolves when the page
\* of a newer query B, with other descriptors, is published changes neither
\* the page, nor the offset, nor hasMore.
C2_StaleLoadMoreLeavesNewerPage ==
    [][\A o \in inflight :
          (/\ o.kind = "loadMore" /\ o \notin inflight'
           /\ pub.id > o.base
           /\ <<o.emb, o.faces>> # <<currentEmbedding, ActiveFaces>>)
              => UNCHANGED <<results, offset, hasMore>>]_vars

\* C3 (as claimed): after every completed retrieval, of every query kind,
\* hasMore is true iff the retrieval returned exactly PAGE_SIZE items.
C3_HasMoreIffFullPage ==
    last.outcome = "ok" => (hasMore <=> last.n = PAGE_SIZE)

\* C3 (amended): after a completed submit of any kind and after a completed
\* loadMore of a single-descriptor or single-face query, hasMore is true iff
\* the retrieval returned exactly PAGE_SIZE items; after a completed loadMore
\* of a multi-face query, hasMore is true iff the retrieval returned more
\* items than the page held when loadMore was called and exactly as many as
\* its enlarged limit, the offset at the call plus PAGE_SIZE.
C3_HasMorePolicy ==
    last.outcome = "ok" =>
        IF last.lm = "multi face"
        THEN hasMore <=> (last.n > last.resLen /\ last.n = last.offset + PAGE_SIZE)
        ELSE hasMore <=> (last.n = PAGE_SIZE)

\* A multi-face loadMore returned exactly PAGE_SIZE items, nothing new.
C3_Witness ==
    /\ last.outcome = "ok" /\ last.lm = "multi face"
    /\ last.n = PAGE_SIZE /\ ~hasMore

\* C4: a loadMore of a single-descriptor or single-face query that resolves
\* keeps the items of the page, in their order, and appends the items it
\* retrieved: the page grows by the number of items returned.
C4_LoadMoreAppends ==
    [][\A o \in inflight :
          (o.kind = "loadMore" /\ o.lm # "multi face" /\ o \notin inflight'
              /\ Resolved("ok"))
              => /\ Len(results') = Len(results) + last'.n
                 /\ SubSeq(results', 1, Len(results)) = results]_vars

\* A full first page followed by a loadMore that returned the rest of the
\* store, fewer than PAGE_SIZE items (20 + 7 = 27 in a store of 27).
C4_Witness ==
    /\ last.kind = "loadMore" /\ last.lm = "embedding" /\ last.outcome = "ok"
    /\ last.resLen = PAGE_SIZE /\ last.n = NumPhotos - 1 - PAGE_SIZE
    /\ last.n \in 1..(PAGE_SIZE - 1)
    /\ Len(results) = PAGE_SIZE + last.n
    /\ ~hasMore

\* C5: a loadMore retrieves with the descriptor(s) and the filter set that
\* produced the page it continues.
C5_LoadMoreReusesPageFilters ==
    \A o \in inflight :
        o.kind = "loadMore" =>
            /\ o.emb = o.pageEmb
            /\ o.faces = o.pageFaces
            /\ o.evs = o.pageEvs

\* C6: while a submit of another intent kind than the active one is in
\* flight, the page and the cursor are empty.
C6_PageClearedWhileSearching ==
    \A o \in inflight :
        (o.kind \in SubmitKinds /\ o.diff) => (results = <<>> /\ offset = 0)

\* C7: searchByStoredEmbedding for a photo without a stored descriptor ends
\* with isSearching false, an empty page, hasMore false and the not-found
\* message.
C7_NotFoundEndsEmpty ==
    [][Resolved("not found")
          => /\ ~isSearching'
             /\ results' = <<>>
             /\ ~hasMore'
             /\ message'.fmt = "Embedding not found for this image."]_vars

\* C8: when the encoder call, the lookup or the store query of a submit or
\* of a loadMore fails, the page, the offset, hasMore and the active
\* descriptors are left exactly as they were: no partial page, no cursor
\* moved without its page.
C8_FailureLeavesPageIntact ==
    [][Resolved("failed")
          => UNCHANGED <<results, offset, hasMore, currentEmbedding,
                         currentFaceEmbeddings>>]_vars

\* The store query of an operation failed while a non-empty page was shown.
C8_Witness ==
    /\ last.outcome = "failed" /\ last.pc = "query"
    /\ results # <<>> /\ offset = PAGE_SIZE

\* The status messages of the hook; none of them reports a failure.
StatusFormats ==
    {"", "Please enter a search query.", "Found N images for \"query\".",
     "Found N similar images.", "Embedding not found for this image.",
     "Found N images with similar faces.", "Found N images with all K faces.",
     "Showing N images."}

\* C9: when the store query of a submit fails, isSearching returns to false
\* and the status message reports the failure.
C9_StoreFailureIsIndicated ==
    [][(Resolved("failed") /\ last'.pc = "query" /\ last'.kind \in SubmitKinds)
          => (~isSearching' /\ message'.fmt \notin StatusFormats)]_vars

\* C10: the page never holds two items with the same photo id.
C10_NoDuplicatePhotoId ==
    \A i, j \in 1..Len(results) : i # j => results[i].id # results[j].id

\* a is not ranked below b: score(a) >= score(b), the scores being fractions.
ScoreAtLeast(a, b) == a.score * b.den >= b.score * a.den

\* C11: while a single-descriptor query (text, image, stored descriptor) is
\* the active one, the page is ordered by score, best first, after every
\* submit and after every loadMore.
C11_PageSortedByScore ==
    currentEmbedding # None =>
        \A i \in 1..(Len(results) - 1) : ScoreAtLeast(results[i], results[i + 1])

\* ------------------------------------------------------------------------
\* The multi-face fusion on arbitrary per-face result lists
\* ------------------------------------------------------------------------

\* Face descriptors of one fused query, and photos of the per-face lists.
MaxFaces == 3
MaxFusionPhotos == 2

FusionPhotos == 1..MaxFusionPhotos

\* What one face query returns for one photo: no row (the photo has no face,
\* or falls behind the candidate limit), or a row with its score.
FusionScores == {-20, 0, 30, 60}
RowOptions == {None} \cup {Some(sc) : sc \in FusionScores}

FusionLimits == {1, MaxFusionPhotos}

\* The list searchByFaceEmbedding returns for the rows given: ORDER BY score DESC.
FaceResultList(rows) ==
    OrderByScoreDesc({p \in FusionPhotos : rows[p] # None},
                     [p \in FusionPhotos |-> IF rows[p] = None THEN 0 ELSE ValueOf(rows[p])])

\* The calls of the fusion: N >= 2 per-face lists and a limit.
FusionCalls ==
    {[pc |-> "called",
      perFaceResults |-> [fi \in DOMAIN rows |-> FaceResultList(rows[fi])],
      limit |-> limit, out |-> <<>>] :
        rows \in UNION {[1..n -> [FusionPhotos -> RowOptions]] : n \in 2..MaxFaces},
        limit \in FusionLimits}

FusionInit ==
    /\ SessionInit
    /\ fusion \in FusionCalls
    /\ AppInit
    /\ overlay = NoOverlay
    /\ UiInit

\* Lines 213-249 of searchByMultipleFaceEmbeddings, once Promise.all resolved.
fuseResolved ==
    /\ fusion.pc = "called"
    /\ fusion' = [fusion EXCEPT !.pc = "returned",
                                !.out = FuseFaceResults(fusion.perFaceResults, fusion.limit)]
    /\ UNCHANGED <<sessionVars, appVars, overlay, uiVars>>

FusionNext == fuseResolved

FusionSpec == FusionInit /\ [][FusionNext]_vars

\* The photo has a row in the fi-th per-face list; its score there.
InList(rows, id) == \E k \in 1..Len(rows) : rows[k].id = id
ScoreIn(rows, id) == rows[CHOOSE k \in 1..Len(rows) : rows[k].id = id].score

\* Position of the photo in the output (0: not in the output).
PlaceOf(out, id) ==
    IF InList(out, id) THEN CHOOSE k \in 1..Len(out) : out[k].id = id ELSE 0

\* x is in all N per-face lists, y in all but the j-th, with the same scores
\* as x in the lists that hold both.
FullAndPartialMatch(lists, x, y, j) ==
    /\ \A fi \in 1..Len(lists) : InList(lists[fi], x)
    /\ ~InList(lists[j], y)
    /\ \A fi \in 1..Len(lists) :
           fi # j => /\ InList(lists[fi], y)
                     /\ ScoreIn(lists[fi], y) = ScoreIn(lists[fi], x)

\* C12: in the output of the fusion of N >= 2 lists, a photo of all N lists
\* has a strictly greater combinedScore than, and comes before, a photo of
\* only N-1 of the lists with the same scores in those.
C12_FullMatchRanksAbovePartial ==
    fusion.pc = "returned" =>
        \A x, y \in FusionPhotos : \A j \in 1..Len(fusion.perFaceResults) :
            (FullAndPartialMatch(fusion.perFaceResults, x, y, j)
                 /\ InList(fusion.out, y))
                => LET px == PlaceOf(fusion.out, x)
                       py == PlaceOf(fusion.out, y)
                   IN  /\ px # 0 /\ px < py
                       /\ ~ScoreAtLeast(fusion.out[py], fusion.out[px])

\* Two result lists hold the same photos, in the same order, with the same
\* scores (as fractions).
SameItems(a, b) ==
    /\ Len(a) = Len(b)
    /\ \A k \in 1..Len(a) :
           a[k].id = b[k].id /\ a[k].score * b[k].den = b[k].score * a[k].den

\* Limits, offsets and filters of a face query.
FaceQueryLimits == {PAGE_SIZE, 2 * PAGE_SIZE}
FaceQueryOffsets == {0, PAGE_SIZE}

\* The store query of a one-face list returns what the single-face query
\* returns for the same limit, offset and filters.
SingleFaceDelegates(f) ==
    \A limit \in FaceQueryLimits, off \in FaceQueryOffsets,
       ev \in SUBSET Events, tg \in SUBSET Tags :
        SameItems(searchByMultipleFaceEmbeddings(<<f>>, limit, off, ev, tg),
                  searchByFaceEmbedding(f, limit, off, ev, tg))

\* C13: a Faces query with exactly one face embedding behaves as the
\* single-face query: the store query returns the same items, order and scores
\* for the same limit, offset and filters; searchByFaces([f]) publishes the
\* page, cursor, hasMore, message and descriptors searchByFace(f) publishes;
\* and a loadMore on that page takes the offset-based branch and appends the
\* single-face retrieval at the offset of the call.
C13_OneFaceListIsSingleFace ==
    [][\A o \in inflight :
          (o \notin inflight' /\ Resolved("ok") /\ last'.id = o.id
               /\ Len(o.faces) = 1) =>
              /\ o.kind = "searchByFaces" =>
                     LET ref  == [o EXCEPT !.kind = "searchByFace"]
                         page == searchByFaceEmbedding(o.faces[1], PAGE_SIZE, 0, o.evs, {})
                     IN  /\ SingleFaceDelegates(o.faces[1])
                         /\ SameItems(results', page)
                         /\ offset' = PAGE_SIZE
                         /\ hasMore' = (Len(page) = PAGE_SIZE)
                         /\ message' = SubmitMessage(ref, page)
                         /\ currentEmbedding' = None
                         /\ currentFaceEmbeddings' = Some(<<o.faces[1]>>)
              /\ (o.kind = "loadMore" /\ pub.kind = "searchByFaces") =>
                     LET hits == searchByFaceEmbedding(o.faces[1], PAGE_SIZE,
                                                       o.offset, o.evs, {})
                     IN  /\ o.lm = "single face"
                         /\ SameItems(results', results \o hits)
                         /\ offset' = offset + Len(hits)
                         /\ hasMore' = (Len(hits) = PAGE_SIZE)]_vars

\* A loadMore on the page of searchByFaces([f]) appended the rest of the
\* photos with a face, past the first page.
C13_Witness ==
    /\ pub.kind = "searchByFaces" /\ Len(pub.faces) = 1
    /\ last.kind = "loadMore" /\ last.lm = "single face" /\ last.outcome = "ok"
    /\ last.base = pub.id /\ last.n > 0
    /\ Len(results) = PAGE_SIZE + last.n

\* C14: when a submit or a loadMore completes, the count N of the status
\* message is the number of items of the page.
C14_MessageCountIsPageLength ==
    [][Resolved("ok") => message'.n = Len(results')]_vars

\* ------------------------------------------------------------------------
\* The query session under a change of the selected model
\* ------------------------------------------------------------------------

\* The other models of MODEL_CONFIGS with the dimension of the first.
OtherModels == {"siglip2-base"}

\* Another model is selected while the session is mounted: the hook receives
\* the new modelConfig and keeps its state; useDuckDB drops the connection
\* (setConn(null)), closes the database and opens that of the new model.  An
\* operation in flight holds the closed connection; the change is taken when
\* none is.
modelChanged(m) ==
    /\ modelConfig # None /\ modelConfig # Some(m)
    /\ inflight = {}
    /\ modelConfig' = Some(m)
    /\ conn' = FALSE
    /\ UNCHANGED <<session, inflight, counters, history>>

ModelNext ==
    \/ connReady /\ UNCHANGED aside
    \/ \E m \in Models : modelSelected(m) /\ UNCHANGED aside
    \/ \E m \in Models \cup OtherModels : modelChanged(m) /\ UNCHANGED aside
    \/ \E q \in TextQueries, ev \in EventArgs : searchByText(q, ev) /\ UNCHANGED aside
    \/ \E id \in StoredIds, ev \in EventArgs : searchByStoredEmbedding(id, ev) /\ UNCHANGED aside
    \/ loadMore /\ UNCHANGED aside
    \/ \E o \in inflight : encodeResolved(o) /\ UNCHANGED aside
    \/ \E o \in inflight : getImageEmbeddingResolved(o) /\ UNCHANGED aside
    \/ \E o \in inflight : submitResolved(o) /\ UNCHANGED aside
    \/ \E o \in inflight : loadMoreResolved(o) /\ UNCHANGED aside
    \/ \E o \in inflight : rejected(o) /\ UNCHANGED aside

ModelSpec == Init /\ [][ModelNext]_vars

\* C15: every store query the session has issued searches the rows of the
\* model that produced its query vector: the model of its search
\* configuration is the model of its descriptor.
C15_QueryVectorOfQueriedModel ==
    \A o \in inflight :
        (o.pc = "query" /\ o.emb # None) => o.embModel = o.model

\* ------------------------------------------------------------------------
\* The App's handlers and the encoder's model loads
\* ------------------------------------------------------------------------

\* Calls of the App's handlers in one behaviour.
MaxCalls == 2

\* The handlers whose query is an image: upload or paste, crop search, and
\* the search of a face crop as an image.
ImageKinds == {"upload", "crop", "faceAsImage"}

LoadsAtCreationEager == {"text", "vision"}

\* The models the effect of useEncoder loads when it creates the encoder:
\* encoder.loadTextModel(...) only.
LoadsAtCreation == {"text"}

\* The handler call is logged.
Called(kind) ==
    [appLog EXCEPT !.calls = @ + 1, !.lastCall = kind,
                   !.imageActions = IF kind \in ImageKinds THEN @ + 1 ELSE @]

\* A handler ended; how.
Ended(log, how) == [log EXCEPT !.ended = @ + 1, !.lastEnd = how]

NewHandler(kind, blob, faces) ==
    [id |-> appLog.calls + 1, h |-> kind, pc |-> "start", blob |-> blob,
     faces |-> faces, evs |-> selectedEvents,
     canSearch |-> conn /\ modelConfig # None,
     isVisionReady |-> encoderHook.isVisionReady]

\* ModelSelector.onSelect: the model is selected; the effect of useEncoder
\* builds its encoder and starts the load of the text model.
selectModel(m) ==
    /\ modelSelected(m)
    /\ encoder' = [exists |-> TRUE, textReady |-> FALSE, visionReady |-> FALSE,
                   loads |-> {[id |-> 0, part |-> part] : part \in LoadsAtCreation}]
    /\ encoderHook' = [isTextReady |-> FALSE, isVisionReady |-> FALSE,
                       isLoading |-> TRUE, error |-> FALSE]
    /\ appLog' = [appLog EXCEPT
                     !.textLoads = IF "text" \in LoadsAtCreation THEN @ + 1 ELSE @,
                     !.visionLoads = IF "vision" \in LoadsAtCreation THEN @ + 1 ELSE @]
    /\ UNCHANGED <<handlers, fusion, overlay, uiVars>>

\* encoder.loadTextModel resolves, or rejects.
textLoadResolved ==
    /\ \E l \in encoder.loads :
          /\ l.part = "text"
          /\ encoder' = [encoder EXCEPT !.textReady = TRUE, !.loads = @ \ {l}]
    /\ encoderHook' = [encoderHook EXCEPT !.isTextReady = TRUE, !.isLoading = FALSE]
    /\ UNCHANGED <<sessionVars, handlers, appLog, fusion, overlay, uiVars>>

textLoadRejected ==
    /\ \E l \in encoder.loads :
          /\ l.part = "text"
          /\ encoder' = [encoder EXCEPT !.loads = @ \ {l}]
    /\ encoderHook' = [encoderHook EXCEPT !.error = TRUE, !.isLoading = FALSE]
    /\ UNCHANGED <<sessionVars, handlers, appLog, fusion, overlay, uiVars>>

\* await loadVisionModel() of handler h.  useEncoder.loadVisionModel returns
\* at once without an encoder or with the isVisionReady of the render the
\* handler was made in; encoder.loadVisionModel
\* returns at once with processor and visionModel set; else it starts the
\* load of the vision model, whether or not one is under way.
AwaitVision(h, log) ==
    IF ~encoder.exists \/ h.isVisionReady
    THEN /\ handlers' = (handlers \ {h}) \cup {[h EXCEPT !.pc = "visionReturned"]}
         /\ encoder' = encoder
         /\ appLog' = log
    ELSE IF encoder.visionReady
    THEN /\ handlers' = (handlers \ {h}) \cup {[h EXCEPT !.pc = "encoderReturned"]}
         /\ encoder' = encoder
         /\ appLog' = log
    ELSE /\ handlers' = (handlers \ {h}) \cup {[h EXCEPT !.pc = "loadVision"]}
         /\ encoder' = [encoder EXCEPT
                           !.loads = @ \cup {[id |-> h.id, part |-> "vision"]}]
         /\ appLog' = [log EXCEPT !.visionLoads = @ + 1]

\* search.searchByImage(blob, search.selectedEvents) with the search object
\* of the render in which the handler was called.
CallSearchByImage(h) ==
    IF h.canSearch
    THEN StartSubmit("searchByImage", "encodeImage", "", h.blob, None, <<>>, Some(h.evs))
    ELSE UNCHANGED sessionVars

\* The handler goes on after await loadVisionModel().
AfterVision(h) ==
    IF h.h = "crop"
    THEN /\ handlers' = (handlers \ {h}) \cup {[h EXCEPT !.pc = "loadImage"]}
         /\ appLog' = appLog
         /\ UNCHANGED sessionVars
    ELSE /\ handlers' = handlers \ {h}
         /\ appLog' = Ended(appLog, "searched")
         /\ CallSearchByImage(h)

handleTextSearch(query) ==
    /\ appLog.calls < MaxCalls
    /\ searchByText(query, Some(selectedEvents))
    /\ appLog' = Called("text")
    /\ UNCHANGED <<encoder, encoderHook, handlers, fusion, overlay, uiVars>>

handleFindSimilar(imageId) ==
    /\ appLog.calls < MaxCalls
    /\ searchByStoredEmbedding(imageId, Some(selectedEvents))
    /\ appLog' = Called("stored")
    /\ UNCHANGED <<encoder, encoderHook, handlers, fusion, overlay, uiVars>>

\* handleFindSamePersons: the composite preview of the faces is drawn inside
\* try/catch, then the face query is submitted.
handleFindSamePersons(faceEmbeddings) ==
    /\ appLog.calls < MaxCalls
    /\ handlers' = handlers
                      \cup {[NewHandler("faces", 0, faceEmbeddings) EXCEPT !.pc = "preview"]}
    /\ appLog' = Called("faces")
    /\ UNCHANGED <<sessionVars, encoder, encoderHook, fusion, overlay, uiVars>>

previewSettled(h) ==
    /\ h.pc = "preview"
    /\ handlers' = handlers \ {h}
    /\ appLog' = Ended(appLog, "searched")
    /\ IF h.canSearch /\ Len(h.faces) # 0
       THEN StartSubmit("searchByFaces", "query", "", 0, None, h.faces, Some(h.evs))
       ELSE UNCHANGED sessionVars
    /\ UNCHANGED <<encoder, encoderHook, fusion, overlay, uiVars>>

handleImageUpload(blob) ==
    /\ appLog.calls < MaxCalls
    /\ AwaitVision(NewHandler("upload", blob, <<>>), Called("upload"))
    /\ UNCHANGED <<sessionVars, encoderHook, fusion, overlay, uiVars>>

handleSearchCropped(blob) ==
    /\ appLog.calls < MaxCalls
    /\ AwaitVision(NewHandler("crop", blob, <<>>), Called("crop"))
    /\ UNCHANGED <<sessionVars, encoderHook, fusion, overlay, uiVars>>

\* handleSearchFaceAsImage: fetch(sourceImageUrl) first, inside try/catch.
handleSearchFaceAsImage(blob) ==
    /\ appLog.calls < MaxCalls
    /\ handlers' = handlers
                      \cup {[NewHandler("faceAsImage", blob, <<>>) EXCEPT !.pc = "fetch"]}
    /\ appLog' = Called("faceAsImage")
    /\ UNCHANGED <<sessionVars, encoder, encoderHook, fusion, overlay, uiVars>>

fetchResolved(h) ==
    /\ h.pc = "fetch"
    /\ AwaitVision(h, appLog)
    /\ UNCHANGED <<sessionVars, encoderHook, fusion, overlay, uiVars>>

fetchRejected(h) ==
    /\ h.pc = "fetch"
    /\ handlers' = handlers \ {h}
    /\ appLog' = Ended(appLog, "fetch failed, ignored")
    /\ UNCHANGED <<sessionVars, encoder, encoderHook, fusion, overlay, uiVars>>

\* The load of the vision model handler h awaits resolves: processor and
\* visionModel are set, setIsVisionReady(true), and the handler goes on.
visionLoadResolved(h) ==
    /\ h.pc = "loadVision"
    /\ encoder' = [encoder EXCEPT !.visionReady = TRUE,
                                  !.loads = @ \ {[id |-> h.id, part |-> "vision"]}]
    /\ encoderHook' = [encoderHook EXCEPT !.isVisionReady = TRUE]
    /\ AfterVision(h)
    /\ UNCHANGED <<fusion, overlay, uiVars>>

\* It rejects: the handler has no catch and ends there.
visionLoadRejected(h) ==
    /\ h.pc = "loadVision"
    /\ encoder' = [encoder EXCEPT !.loads = @ \ {[id |-> h.id, part |-> "vision"]}]
    /\ handlers' = handlers \ {h}
    /\ appLog' = Ended(appLog, IF h.h = "faceAsImage"
                               THEN "vision load failed, ignored"
                               ELSE "vision load failed")
    /\ UNCHANGED <<sessionVars, encoderHook, fusion, overlay, uiVars>>

\* await loadVisionModel() returns without a load.
visionReturned(h) ==
    /\ h.pc \in {"visionReturned", "encoderReturned"}
    /\ encoderHook' = IF h.pc = "encoderReturned"
                      THEN [encoderHook EXCEPT !.isVisionReady = TRUE]
                      ELSE encoderHook
    /\ AfterVision(h)
    /\ UNCHANGED <<encoder, fusion, overlay, uiVars>>

\* handleSearchCropped: corsImg.onload, the crop is drawn and canvas.toBlob called.
imageLoaded(h) ==
    /\ h.pc = "loadImage"
    /\ handlers' = (handlers \ {h}) \cup {[h EXCEPT !.pc = "toBlob"]}
    /\ UNCHANGED <<sessionVars, encoder, encoderHook, appLog, fusion, overlay, uiVars>>

\* corsImg.onerror: reject(new Error("Failed to load image")) ends the handler,
\* which has no catch: no state of the hooks is set.
imageLoadFailed(h) ==
    /\ h.pc = "loadImage"
    /\ handlers' = handlers \ {h}
    /\ appLog' = Ended(appLog, "image load failed")
    /\ UNCHANGED <<sessionVars, encoder, encoderHook, fusion, overlay, uiVars>>

\* canvas.toBlob gives the blob: the image query is submitted.
toBlobResolved(h) ==
    /\ h.pc = "toBlob"
    /\ handlers' = handlers \ {h}
    /\ appLog' = Ended(appLog, "searched")
    /\ CallSearchByImage(h)
    /\ UNCHANGED <<encoder, encoderHook, fusion, overlay, uiVars>>

\* canvas.toBlob gives null: reject(new Error("toBlob failed")).
toBlobFailed(h) ==
    /\ h.pc = "toBlob"
    /\ handlers' = handlers \ {h}
    /\ appLog' = Ended(appLog, "toBlob failed")
    /\ UNCHANGED <<sessionVars, encoder, encoderHook, fusion, overlay, uiVars>>

\* The text queries and face lists of the App's handlers.
AppQueries == {"cat"}
AppFaceLists == {<<1, 2>>}

AppNext ==
    \/ connReady /\ UNCHANGED aside
    \/ \E m \in Models : selectModel(m)
    \/ textLoadResolved
    \/ textLoadRejected
    \/ \E q \in AppQueries : handleTextSearch(q)
    \/ \E id \in StoredIds : handleFindSimilar(id)
    \/ \E fs \in AppFaceLists : handleFindSamePersons(fs)
    \/ \E b \in Blobs : handleImageUpload(b)
    \/ \E b \in Blobs : handleSearchCropped(b)
    \/ \E b \in Blobs : handleSearchFaceAsImage(b)
    \/ \E h \in handlers : previewSettled(h)
    \/ \E h \in handlers : fetchResolved(h)
    \/ \E h \in handlers : fetchRejected(h)
    \/ \E h \in handlers : visionLoadResolved(h)
    \/ \E h \in handlers : visionLoadRejected(h)
    \/ \E h \in handlers : visionReturned(h)
    \/ \E h \in handlers : imageLoaded(h)
    \/ \E h \in handlers : imageLoadFailed(h)
    \/ \E h \in handlers : toBlobResolved(h)
    \/ \E h \in handlers : toBlobFailed(h)
    \/ \E o \in inflight : encodeResolved(o) /\ UNCHANGED aside
    \/ \E o \in inflight : getImageEmbeddingResolved(o) /\ UNCHANGED aside
    \/ \E o \in inflight : submitResolved(o) /\ UNCHANGED aside
    \/ \E o \in inflight : rejected(o) /\ UNCHANGED aside

AppSpec == Init /\ [][AppNext]_vars

\* The underlying loads of one model that are under way.
LoadsUnderWay(part) == {l \in encoder.loads : l.part = part}

\* C16: however many callers ask for the vision model, or for the text model,
\* before its first load has finished, at most one underlying load of that
\* model is under way.
C16_OneUnderlyingLoad ==
    \A part \in {"text", "vision"} : Cardinality(LoadsUnderWay(part)) <= 1

\* C17: a load of the vision model is started only in a step of an image-kind
\* handler (upload or paste, crop search, face crop as image), so never before
\* the first image-kind action and never by a text, stored-descriptor or face
\* query.
C17_VisionLoadOnlyForImageAction ==
    [][\A l \in encoder'.loads \ encoder.loads :
          l.part = "vision" =>
             /\ appLog'.imageActions > 0
             /\ \E h \in handlers' : h.id = l.id /\ h.h \in ImageKinds]_vars

\* An image-kind action and another call were made, and the one load of the
\* vision model, started for the image-kind action, has finished.
C17_Witness ==
    /\ appLog.calls = 2
    /\ appLog.imageActions = 1
    /\ appLog.visionLoads = 1
    /\ appLog.textLoads = 1
    /\ encoder.visionReady

\* The step in which a crop search ends on the failed load of its source image.
CropImageFailed ==
    /\ appLog'.ended = appLog.ended + 1
    /\ appLog'.lastEnd = "image load failed"

\* C20: when the source image of a crop search cannot be loaded, an error is
\* shown to the user (the status message or the error state changes), no query
\* is submitted, and the page, the cursor and isSearching stay as they were.
C20_ImageFailureSurfaced ==
    [][CropImageFailed =>
          /\ message' # message \/ encoderHook'.error # encoderHook.error
          /\ nextId' = nextId
          /\ inflight' = inflight
          /\ UNCHANGED <<results, offset, isSearching>>]_vars

\* ------------------------------------------------------------------------
\* The crop overlay: from a drag on the displayed image to a pixel rectangle
\* ------------------------------------------------------------------------

\* Natural sizes of the image, sizes of the img element's box (CSS pixels)
\* and its object-fit; the box is at the client origin.
NaturalSizes == {<<1, 1>>, <<8, 8>>, <<16, 16>>}
BoxSizes == {<<8, 8>>, <<9, 8>>, <<14, 14>>}
Fits == {"contain", "fill"}

\* Client coordinates of the mouse events (CSS pixels).
ClientCoords == {1, 7, 14}

\* Displayed lengths are counted in parts of a CSS pixel small enough for
\* every length the overlay computes to be a whole number of them.
Den(o) == IF o.natW = 0 \/ o.natH = 0 THEN 2 ELSE 2 * o.natW * o.natH

Overlays ==
    {[NoOverlay EXCEPT !.natW = n[1], !.natH = n[2], !.irW = b[1], !.irH = b[2],
                       !.fit = f] :
        n \in NaturalSizes, b \in BoxSizes, f \in Fits}

Abs(a) == IF a >= 0 THEN a ELSE 0 - a

MathFloor(n, d) == n \div d

\* Math.round of n / d, n >= 0: the nearest integer, a half goes up.
MathRound(n, d) == (2 * n + d) \div (2 * d)

\* The rectangle the image is drawn in inside its element.
getRenderedRect(o) ==
    LET ir == [left |-> 0, top |-> 0,
               width |-> o.irW * Den(o), height |-> o.irH * Den(o)]
    IN  IF o.natW = 0 \/ o.natH = 0 THEN ir
        ELSE IF o.fit \in {"contain", "scale-down"}
        THEN LET byWidth == o.irW * o.natH <= o.irH * o.natW
                 rw == IF byWidth THEN ir.width
                       ELSE (o.natW * o.irH * Den(o)) \div o.natH
                 rh == IF byWidth THEN (o.natH * o.irW * Den(o)) \div o.natW
                       ELSE ir.height
             IN  [left |-> ir.left + (ir.width - rw) \div 2,
                  top |-> ir.top + (ir.height - rh) \div 2,
                  width |-> rw, height |-> rh]
        ELSE ir

\* The drag must be wider and higher than this many CSS pixels.
MinSelection == 5

handleMouseDown(clientX, clientY) ==
    LET rr == getRenderedRect(overlay)
        x == clientX * Den(overlay) - rr.left
        y == clientY * Den(overlay) - rr.top
    IN  /\ ~(x < 0 \/ y < 0 \/ x > rr.width \/ y > rr.height)
        /\ overlay' = [overlay EXCEPT !.start = <<x, y>>, !.current = <<x, y>>,
                                      !.isDrawing = TRUE, !.cropRect = None]
        /\ UNCHANGED <<sessionVars, fusion, appVars, uiVars>>

handleMouseMove(clientX, clientY) ==
    LET rr == getRenderedRect(overlay)
    IN  /\ overlay.isDrawing
        /\ overlay' = [overlay EXCEPT !.current =
              <<Max(0, Min(clientX * Den(overlay) - rr.left, rr.width)),
                Max(0, Min(clientY * Den(overlay) - rr.top, rr.height))>>]
        /\ UNCHANGED <<sessionVars, fusion, appVars, uiVars>>

\* The selection of the drag, in displayed lengths.
Selection(o) ==
    [x |-> Min(o.start[1], o.current[1]), y |-> Min(o.start[2], o.current[2]),
     w |-> Abs(o.current[1] - o.start[1]), h |-> Abs(o.current[2] - o.start[2])]

\* The crop handleMouseUp reports: scX = naturalWidth / rr.width,
\* scY = naturalHeight / rr.height, each value through Math.round.
CropOf(o) ==
    LET rr == getRenderedRect(o)
        sel == Selection(o)
    IN  IF sel.w > MinSelection * Den(o) /\ sel.h > MinSelection * Den(o)
        THEN Some([x |-> MathRound(sel.x * o.natW, rr.width),
                   y |-> MathRound(sel.y * o.natH, rr.height),
                   w |-> MathRound(sel.w * o.natW, rr.width),
                   h |-> MathRound(sel.h * o.natH, rr.height)])
        ELSE None

handleMouseUp ==
    /\ overlay.isDrawing
    /\ overlay' = [overlay EXCEPT !.isDrawing = FALSE, !.cropRect = CropOf(overlay)]
    /\ UNCHANGED <<sessionVars, fusion, appVars, uiVars>>

\* Preview.handleSearchCropped passes a crop that is not null on to
\* App.handleSearchCropped, which sizes its canvas by it.
searchCropped ==
    /\ overlay.cropRect # None
    /\ overlay' = [overlay EXCEPT !.canvas =
                      Some([width |-> ValueOf(overlay.cropRect).w,
                            height |-> ValueOf(overlay.cropRect).h])]
    /\ UNCHANGED <<sessionVars, fusion, appVars, uiVars>>

GeometryInit ==
    /\ SessionInit
    /\ fusion = NoFusion
    /\ AppInit
    /\ overlay \in Overlays
    /\ UiInit

GeometryNext ==
    \/ \E x \in ClientCoords, y \in ClientCoords : handleMouseDown(x, y)
    \/ \E x \in ClientCoords, y \in ClientCoords : handleMouseMove(x, y)
    \/ handleMouseUp
    \/ searchCropped

GeometrySpec == GeometryInit /\ [][GeometryNext]_vars

\* The rendered image has the image's natural size.
ScaleOne(o) ==
    /\ getRenderedRect(o).width = o.natW * Den(o)
    /\ getRenderedRect(o).height = o.natH * Den(o)

\* The drag is over and its selection is not both wider and higher than the
\* threshold.
BelowThreshold(o) ==
    /\ ~o.isDrawing
    /\ \/ Selection(o).w <= MinSelection * Den(o)
       \/ Selection(o).h <= MinSelection * Den(o)

\* C18: a drag whose displayed width or height is below the threshold leaves
\* no crop, and every crop that sizes the canvas is at least one pixel wide
\* and one pixel high.
C18_NoEmptyCrop ==
    /\ BelowThreshold(overlay) => overlay.cropRect = None
    /\ overlay.canvas # None =>
          /\ ValueOf(overlay.canvas).width >= 1
          /\ ValueOf(overlay.canvas).height >= 1

\* Pixel value p is displayed length v itself.
SameLength(p, v, o) == p * Den(o) = v

\* Pixel value p is displayed length v rounded to the nearest whole pixel,
\* a half going up.
NearestPixel(p, v, o) ==
    /\ 2 * (p * Den(o) - v) <= Den(o)
    /\ 2 * (p * Den(o) - v) > 0 - Den(o)

\* C19 as stated: at scale 1 the reported crop is the selected displayed
\* rectangle, same x, y, width and height.
C19_ScaleOneSameRect ==
    (overlay.cropRect # None /\ ScaleOne(overlay)) =>
        LET crop == ValueOf(overlay.cropRect)
            sel == Selection(overlay)
        IN  /\ SameLength(crop.x, sel.x, overlay)
            /\ SameLength(crop.y, sel.y, overlay)
            /\ SameLength(crop.w, sel.w, overlay)
            /\ SameLength(crop.h, sel.h, overlay)

\* C19: at scale 1 the reported crop is the selected displayed rectangle with
\* x, y, width and height each rounded to the nearest whole pixel; it is the
\* selected rectangle itself when these are whole numbers of pixels.
C19_ScaleOneRoundedRect ==
    (overlay.cropRect # None /\ ScaleOne(overlay)) =>
        LET crop == ValueOf(overlay.cropRect)
            sel == Selection(overlay)
        IN  /\ NearestPixel(crop.x, sel.x, overlay)
            /\ NearestPixel(crop.y, sel.y, overlay)
            /\ NearestPixel(crop.w, sel.w, overlay)
            /\ NearestPixel(crop.h, sel.h, overlay)

\* A crop was reported at scale 1 for a selection that does not start on a
\* whole pixel.
C19_Witness ==
    /\ overlay.cropRect # None
    /\ ScaleOne(overlay)
    /\ Selection(overlay).x % Den(overlay) # 0

\* ------------------------------------------------------------------------
\* Further properties of the query session
\* ------------------------------------------------------------------------

\* C27: in every state at most one of currentEmbedding and
\* currentFaceEmbeddings is set, so loadMore continues one kind of query.
C27_OneActiveDescriptorKind ==
    ~(currentEmbedding # None /\ currentFaceEmbeddings # None)

\* A face query was published over the page of a whole-image query, and a
\* loadMore of it has resolved.
C27_Witness ==
    /\ pub.diff
    /\ IntentKind(pub.kind) = "Faces"
    /\ currentFaceEmbeddings # None
    /\ last.kind = "loadMore" /\ last.outcome = "ok" /\ last.base = pub.id

\* C30: isSearching is true in every state in which a submit or a loadMore
\* is still unresolved.
C30_SearchingWhileInFlight ==
    inflight # {} => isSearching

\* The active query pages by offset: a whole-image descriptor or one face.
PagesByOffset ==
    \/ currentEmbedding # None
    \/ currentFaceEmbeddings # None /\ Len(ValueOf(currentFaceEmbeddings)) = 1

\* C23: for a single-descriptor or single-face query the offset the next
\* loadMore uses is the number of items its retrievals returned so far, the
\* length of the page, also after a first page shorter than PAGE_SIZE.
C23_OffsetIsPageLength ==
    PagesByOffset => offset = Len(results)

\* The multi-face loadMore o resolves in this step, and the page and the
\* offset are still those of its call.
MultiFaceLoadMoreResolves(o) ==
    /\ o \in inflight /\ o \notin inflight'
    /\ o.lm = "multi face"
    /\ Resolved("ok")
    /\ o.base = pub.id
    /\ offset = o.offset /\ Len(results) = o.resLen

\* C22: a loadMore of a query on two or more faces runs the fused retrieval
\* again with offset 0 and the previous limit plus PAGE_SIZE, puts its result
\* in the place of the page, and sets hasMore only if the result is longer
\* than the previous page and as long as the new limit.
C22_MultiFaceLoadMoreRefetches ==
    [][\A o \in inflight :
          MultiFaceLoadMoreResolves(o) =>
             LET newLimit == offset + PAGE_SIZE
             IN  /\ Len(ValueOf(currentFaceEmbeddings)) >= 2
                 /\ results' = FuseFaceResults(
                        [fi \in 1..Len(ValueOf(currentFaceEmbeddings)) |->
                            searchByFaceEmbedding(ValueOf(currentFaceEmbeddings)[fi],
                                                  newLimit * 10, 0, o.evs, {})],
                        newLimit)
                 /\ offset' = newLimit
                 /\ hasMore' => /\ Len(results') > Len(results)
                                /\ Len(results') = newLimit]_vars

\* A multi-face loadMore has put the result of its enlarged retrieval in the
\* place of a full first page; it found no further photo.
C22_Witness ==
    /\ last.lm = "multi face" /\ last.outcome = "ok"
    /\ last.base = pub.id
    /\ last.resLen = PAGE_SIZE
    /\ Len(results) = PAGE_SIZE
    /\ offset = 2 * PAGE_SIZE
    /\ ~hasMore

\* ------------------------------------------------------------------------
\* Further properties of the multi-face fusion
\* ------------------------------------------------------------------------

\* The per-face lists that hold the photo, and the sum over the N positions
\* of max(0, score), a list without the photo adding nothing.
ListsHolding(lists, id) == {fi \in 1..Len(lists) : InList(lists[fi], id)}

RECURSIVE SumOfPositive(_, _, _)
SumOfPositive(lists, id, n) ==
    IF n = 0 THEN 0
    ELSE SumOfPositive(lists, id, n - 1)
             + (IF InList(lists[n], id) THEN Max(0, ScoreIn(lists[n], id)) ELSE 0)

\* C24: a photo held by all N per-face lists has matchedCount N, so
\* matchRatio 1 and a combinedScore equal to its avgScore, the sum over the
\* lists of max(0, score) divided by N, whatever its scores are.
C24_PhotoOfAllListsScoresItsAverage ==
    fusion.pc = "returned" =>
        \A x \in FusionPhotos :
            LET lists == fusion.perFaceResults
                N     == Len(lists)
            IN  (Cardinality(ListsHolding(lists, x)) = N /\ InList(fusion.out, x))
                    => LET it == fusion.out[PlaceOf(fusion.out, x)]
                       IN  it.score * N = SumOfPositive(lists, x, N) * it.den

\* The candidates of a fusion: the photos of any per-face list.
Candidates(lists) == {x \in FusionPhotos : ListsHolding(lists, x) # {}}

\* combinedScore of a candidate, with matchedCount the number of lists that
\* hold it: (sum / N) * (0.5 + 0.5 * matchedCount / N) as num / den.
CombinedOf(lists, id) ==
    LET N == Len(lists)
    IN  [score |-> SumOfPositive(lists, id, N) * (N + Cardinality(ListsHolding(lists, id))),
         den |-> 2 * N * N]

\* C25: the fusion of N >= 2 lists returns the first `limit` candidates in
\* order of combinedScore, best first: distinct photos of the lists, as many
\* as the limit allows, none left out that scores better than one returned,
\* each with its combinedScore in its score field.
C25_FirstLimitCandidatesByCombinedScore ==
    fusion.pc = "returned" =>
        LET lists == fusion.perFaceResults
            out   == fusion.out
        IN  /\ Len(out) = Min(fusion.limit, Cardinality(Candidates(lists)))
            /\ \A k \in 1..Len(out) : out[k].id \in Candidates(lists)
            /\ \A j, k \in 1..Len(out) : j # k => out[j].id # out[k].id
            /\ \A k \in 1..(Len(out) - 1) : ScoreAtLeast(out[k], out[k + 1])
            /\ \A k \in 1..Len(out) :
                   /\ ScoreAtLeast(out[k], CombinedOf(lists, out[k].id))
                   /\ ScoreAtLeast(CombinedOf(lists, out[k].id), out[k])
            /\ \A x \in Candidates(lists) :
                   ~InList(out, x) =>
                       \A k \in 1..Len(out) : ScoreAtLeast(out[k], CombinedOf(lists, x))

\* ------------------------------------------------------------------------
\* Calls of searchByMultipleFaceEmbeddings with filters
\* ------------------------------------------------------------------------

\* The face lists, limits and filters of the calls.
CallFaceLists == {<<1>>, <<1, 2>>, <<2, 1>>, <<2, 2>>}
CallLimits == {1, 5, PAGE_SIZE, 2 * PAGE_SIZE}
CallEventNames == {{}, {"e1"}, {"e2"}}
CallTagNames == {{}, Tags}

MultiFaceCalls ==
    {[pc |-> "called", faceEmbeddings |-> fs, limit |-> limit, offset |-> 0,
      eventNames |-> evs, tagNames |-> tags, out |-> <<>>] :
        fs \in CallFaceLists, limit \in CallLimits,
        evs \in CallEventNames, tags \in CallTagNames}

MultiFaceInit ==
    /\ SessionInit
    /\ fusion \in MultiFaceCalls
    /\ AppInit
    /\ overlay = NoOverlay
    /\ UiInit

\* The call returns its list.
multiFaceResolved ==
    /\ fusion.pc = "called"
    /\ fusion' = [fusion EXCEPT
                     !.pc = "returned",
                     !.out = searchByMultipleFaceEmbeddings(
                                 fusion.faceEmbeddings, fusion.limit, fusion.offset,
                                 fusion.eventNames, fusion.tagNames)]
    /\ UNCHANGED <<sessionVars, appVars, overlay, uiVars>>

MultiFaceNext == multiFaceResolved

MultiFaceSpec == MultiFaceInit /\ [][MultiFaceNext]_vars

\* C26: every item a query on two or more faces returns passes the filters
\* of its options, the event names and the tags.
C26_MultiFaceRespectsFilters ==
    (fusion.pc = "returned" /\ Len(fusion.faceEmbeddings) >= 2) =>
        \A k \in 1..Len(fusion.out) :
            PassesFilters(fusion.out[k].id, fusion.eventNames, fusion.tagNames)

\* ------------------------------------------------------------------------
\* The object-tag filter (TagFilter)
\* ------------------------------------------------------------------------

COLLAPSED_LIMIT == 15

\* The longest tag list of the model; tags are numbered in list order.
MaxTags == 17

\* The chips a user clicks.
ClickedTags == {1, 2, COLLAPSED_LIMIT, COLLAPSED_LIMIT + 1}

needsCollapseFromLimit(tf) == tf.tags >= COLLAPSED_LIMIT

\* const needsCollapse = tags.length > COLLAPSED_LIMIT;
needsCollapse(tf) == tf.tags > COLLAPSED_LIMIT

\* needsCollapse && !expanded ? tags.slice(0, COLLAPSED_LIMIT) : tags
visibleTags(tf) ==
    IF needsCollapse(tf) /\ ~tf.expanded THEN 1..COLLAPSED_LIMIT ELSE 1..tf.tags

\* The toggle chip: none, "+N more" (its N), or "Show less".
toggleChip(tf) ==
    IF tf.tags = 0 \/ ~needsCollapse(tf) THEN [shown |-> FALSE, label |-> "", n |-> 0]
    ELSE IF tf.expanded THEN [shown |-> TRUE, label |-> "Show less", n |-> 0]
    ELSE [shown |-> TRUE, label |-> "+N more", n |-> tf.tags - COLLAPSED_LIMIT]

\* The chips rendered: none at all without tags.
renderedTags(tf) == IF tf.tags = 0 THEN {} ELSE visibleTags(tf)

\* onClick of a tag chip: handleToggle(tag), the parent keeps the selection.
handleToggle(tag) ==
    /\ tag \in renderedTags(tagFilter)
    /\ tagFilter' = [tagFilter EXCEPT !.selectedTags =
                        IF tag \in @ THEN @ \ {tag} ELSE @ \cup {tag}]
    /\ UNCHANGED <<sessionVars, fusion, appVars, overlay, faceQuery>>

\* onClick of the toggle chip: setExpanded((prev) => !prev)
toggleExpanded ==
    /\ toggleChip(tagFilter).shown
    /\ tagFilter' = [tagFilter EXCEPT !.expanded = ~@]
    /\ UNCHANGED <<sessionVars, fusion, appVars, overlay, faceQuery>>

\* onClick of the Clear chip: onChange([])
clearTags ==
    /\ tagFilter.tags # 0 /\ tagFilter.selectedTags # {}
    /\ tagFilter' = [tagFilter EXCEPT !.selectedTags = {}]
    /\ UNCHANGED <<sessionVars, fusion, appVars, overlay, faceQuery>>

TagFilterInit ==
    /\ SessionInit
    /\ fusion = NoFusion
    /\ AppInit
    /\ overlay = NoOverlay
    /\ faceQuery = NoFaceQuery
    /\ tagFilter \in {[NoTagFilter EXCEPT !.tags = n] : n \in 0..MaxTags}

TagFilterNext ==
    \/ \E tag \in ClickedTags : handleToggle(tag)
    \/ toggleExpanded
    \/ clearTags

TagFilterSpec == TagFilterInit /\ [][TagFilterNext]_vars

\* The list is shown collapsed: the first COLLAPSED_LIMIT tags and the
\* "+N more" toggle with the number of the tags left out.
ShownCollapsed(tf) ==
    /\ renderedTags(tf) = 1..COLLAPSED_LIMIT
    /\ toggleChip(tf) = [shown |-> TRUE, label |-> "+N more",
                         n |-> tf.tags - COLLAPSED_LIMIT]

MaxFaceCalls == 2

\* The embeddings of the faces picked in the preview.
PickedFaces == {<<1>>, <<2>>, <<1, 2>>}

\* The heap of face arrays with one more array; its reference is its place.
WithNewArray(fq, embeddings) ==
    [arrays |-> Append(fq.arrays, embeddings), ref |-> Len(fq.arrays) + 1]

mergeEmbeddingsInPlace(fq, newFaces) ==
    IF fq.active = None THEN WithNewArray(fq, newFaces)
    ELSE [arrays |-> [fq.arrays EXCEPT ![ValueOf(fq.active)] = @ \o newFaces],
          ref |-> ValueOf(fq.active)]

\* const existingEmbeddings = activeFaceEmbeddings ?? [];
\* const mergedEmbeddings = [...existingEmbeddings, ...newFaces.map((f) => f.embedding)];
mergeEmbeddings(fq, newFaces) ==
    WithNewArray(fq, (IF fq.active = None THEN <<>> ELSE fq.arrays[ValueOf(fq.active)])
                         \o newFaces)

\* A face handler suspended at the load of its preview image; it holds the
\* array it built and the search object of its render.
FaceHandler(kind, ref, newFaces) ==
    [id |-> faceQuery.calls + 1, h |-> kind, ref |-> ref,
     existing |-> faceQuery.active, newFaces |-> newFaces,
     evs |-> selectedEvents, canSearch |-> conn]

\* handleFindSamePersons: const embeddings = selectedFaces.map((f) => f.embedding)
findSamePersons(faceEmbeddings) ==
    /\ faceQuery.calls < MaxFaceCalls
    /\ Len(results) > 0
    /\ LET heap == WithNewArray(faceQuery, faceEmbeddings)
       IN  faceQuery' = [faceQuery EXCEPT
                            !.arrays = heap.arrays,
                            !.calls = @ + 1,
                            !.pending = @ \cup {FaceHandler("find", heap.ref, faceEmbeddings)}]
    /\ UNCHANGED <<sessionVars, fusion, appVars, overlay, tagFilter>>

\* handleAddFacesToQuery up to the load of the preview image.
handleAddFacesToQuery(newFaces) ==
    /\ faceQuery.calls < MaxFaceCalls
    /\ Len(results) > 0
    /\ LET heap == mergeEmbeddings(faceQuery, newFaces)
       IN  faceQuery' = [faceQuery EXCEPT
                            !.arrays = heap.arrays,
                            !.calls = @ + 1,
                            !.pending = @ \cup {FaceHandler("add", heap.ref, newFaces)}]
    /\ UNCHANGED <<sessionVars, fusion, appVars, overlay, tagFilter>>

\* After the try/catch around the preview: setActiveFaceEmbeddings(array) and
\* search.searchByFaces(array, search.selectedEvents).
facesSettled(h) ==
    /\ h \in faceQuery.pending
    /\ faceQuery' = [faceQuery EXCEPT !.active = Some(h.ref), !.pending = @ \ {h}]
    /\ IF h.canSearch
       THEN StartSubmit("searchByFaces", "query", "", 0, None,
                        faceQuery.arrays[h.ref], Some(h.evs))
       ELSE UNCHANGED sessionVars
    /\ UNCHANGED <<fusion, appVars, overlay, tagFilter>>

FaceQueryNext ==
    \/ connReady /\ UNCHANGED aside
    \/ \E f \in FaceInputs, ev \in EventArgs : searchByFace(f, ev) /\ UNCHANGED aside
    \/ \E fs \in PickedFaces : findSamePersons(fs)
    \/ \E fs \in PickedFaces : handleAddFacesToQuery(fs)
    \/ \E h \in faceQuery.pending : facesSettled(h)
    \/ \E o \in inflight : submitResolved(o) /\ UNCHANGED aside
    \/ \E o \in inflight : rejected(o) /\ UNCHANGED aside

FaceQuerySpec == Init /\ [][FaceQueryNext]_vars

\* C29: adding faces to the active face query builds a new list, the
\* existing embeddings followed by the new ones, and submits it; no list
\* built before, the active one included, changes in length or elements.
C29_AddFacesBuildsNewList ==
    [][/\ \A r \in 1..Len(faceQuery.arrays) : faceQuery'.arrays[r] = faceQuery.arrays[r]
       /\ \A h \in faceQuery.pending :
             (h.h = "add" /\ h \notin faceQuery'.pending) =>
                LET existing == IF h.existing = None THEN <<>>
                                ELSE faceQuery.arrays[ValueOf(h.existing)]
                IN  /\ h.existing # Some(h.ref)
                    /\ faceQuery.arrays[h.ref] = existing \o h.newFaces
                    /\ faceQuery'.active = Some(h.ref)
                    /\ h.canSearch =>
                          \E o \in inflight' \ inflight :
                              /\ o.kind = "searchByFaces"
                              /\ o.faces = existing \o h.newFaces]_vars

\* Faces were added to an active face list and the merged list was submitted;
\* the list active before is still what it was.
C29_Witness ==
    /\ faceQuery.active # None
    /\ Len(faceQuery.arrays) = 2
    /\ ValueOf(faceQuery.active) = 2
    /\ Len(faceQuery.arrays[2]) > Len(faceQuery.arrays[1])
    /\ SubSeq(faceQuery.arrays[2], 1, Len(faceQuery.arrays[1])) = faceQuery.arrays[1]
    /\ \E o \in inflight : o.kind = "searchByFaces" /\ o.faces = faceQuery.arrays[2]

\* ------------------------------------------------------------------------
\* Submits of the hook against the encoder's loaded models
\* ------------------------------------------------------------------------

encodeTextWithoutCheck(o) ==
    /\ o.pc = "encodeText"
    /\ encodeResolved(o)
    /\ UNCHANGED aside

\* encoder.encodeText(query): throws "Text model not loaded" without the
\* tokenizer and the text model, else runs the model.
encodeText(o) ==
    /\ o.pc = "encodeText"
    /\ IF encoder.textReady THEN encodeResolved(o) ELSE rejected(o)
    /\ UNCHANGED aside

\* encoder.encodeImage(imageBlob): throws "Vision model not loaded" without
\* the processor and the vision model, else runs the model.
encodeImage(o) ==
    /\ o.pc = "encodeImage"
    /\ IF encoder.visionReady THEN encodeResolved(o) ELSE rejected(o)
    /\ UNCHANGED aside

EncodeNext ==
    \/ connReady /\ UNCHANGED aside
    \/ \E m \in Models : selectModel(m)
    \/ textLoadResolved
    \/ textLoadRejected
    \/ \E b \in Blobs : handleImageUpload(b)
    \/ \E h \in handlers : visionLoadResolved(h)
    \/ \E h \in handlers : visionLoadRejected(h)
    \/ \E h \in handlers : visionReturned(h)
    \/ \E f \in FaceInputs, ev \in EventArgs : searchByFace(f, ev) /\ UNCHANGED aside
    \/ \E q \in AppQueries, ev \in EventArgs : searchByText(q, ev) /\ UNCHANGED aside
    \/ \E b \in Blobs, ev \in EventArgs : searchByImage(b, ev) /\ UNCHANGED aside
    \/ \E o \in inflight : encodeText(o)
    \/ \E o \in inflight : encodeImage(o)
    \/ \E o \in inflight : submitResolved(o) /\ UNCHANGED aside
    \/ \E o \in inflight : (o.pc = "query" /\ rejected(o)) /\ UNCHANGED aside

EncodeSpec == Init /\ [][EncodeNext]_vars

\* The operation awaits an encoder call whose model is not loaded.
AwaitsUnloadedModel(o) ==
    \/ o.pc = "encodeText" /\ ~encoder.textReady
    \/ o.pc = "encodeImage" /\ ~encoder.visionReady

\* C28: encodeText without the text model loaded, and encodeImage without
\* the vision model loaded, fail and return no descriptor: the submit ends
\* there, with the page as it was and isSearching false.
C28_EncodeBeforeLoadFails ==
    [][\A o \in inflight :
          (AwaitsUnloadedModel(o) /\ o \notin inflight') =>
             /\ \A n \in inflight' : n.id # o.id
             /\ last'.id = o.id /\ last'.outcome = "failed"
             /\ currentEmbedding' = currentEmbedding
             /\ results' = results
             /\ isSearching' = FALSE]_vars

\* A text submit and an image submit made over a page, each before its model
\* was loaded, have failed: the page is there, isSearching is false.
C28_Witness ==
    /\ last.outcome = "failed" /\ last.pc = "encodeImage"
    /\ ~encoder.visionReady
    /\ encoder.exists
    /\ Len(results) > 0
    /\ ~isSearching

\* ------------------------------------------------------------------------
\* Properties of the session at rest and under awaited loadMore calls
\* ------------------------------------------------------------------------

\* C31: once every started encoder and store call has resolved or failed,
\* isSearching is false: every operation that set it resets it, on success,
\* on failure and on the descriptor-not-found early return.
C31_IdleMeansNotSearching == inflight = {} => ~isSearching

\* Three operations have run and none is in flight; the last one ended on
\* the descriptor-not-found early return.
C31_Witness ==
    /\ inflight = {}
    /\ nextId > MaxOps
    /\ last.outcome = "not found"
    /\ ~isSearching

\* One query is submitted, then loadMore is called again and again, each call
\* awaited before the next, with the filter left as it was at the submit.
NoSubmitYet == nextId = 1
Awaited == inflight = {} /\ pub.id # 0

PagingNext ==
    \/ connReady /\ UNCHANGED aside
    \/ \E m \in Models : modelSelected(m) /\ UNCHANGED aside
    \/ \E ev \in EventChoices : (NoSubmitYet /\ setSelectedEvents(ev)) /\ UNCHANGED aside
    \/ \E q \in AppQueries, ev \in EventArgs :
           (NoSubmitYet /\ searchByText(q, ev)) /\ UNCHANGED aside
    \/ \E b \in Blobs, ev \in EventArgs :
           (NoSubmitYet /\ searchByImage(b, ev)) /\ UNCHANGED aside
    \/ \E id \in StoredIds, ev \in EventArgs :
           (NoSubmitYet /\ searchByStoredEmbedding(id, ev)) /\ UNCHANGED aside
    \/ \E f \in Faces, ev \in EventArgs :
           (NoSubmitYet /\ searchByFace(f, ev)) /\ UNCHANGED aside
    \/ \E fs \in FaceLists, ev \in EventArgs :
           (NoSubmitYet /\ searchByFaces(fs, ev)) /\ UNCHANGED aside
    \/ (Awaited /\ loadMore) /\ UNCHANGED aside
    \/ \E o \in inflight : encodeResolved(o) /\ UNCHANGED aside
    \/ \E o \in inflight : getImageEmbeddingResolved(o) /\ UNCHANGED aside
    \/ \E o \in inflight : submitResolved(o) /\ UNCHANGED aside
    \/ \E o \in inflight : loadMoreResolved(o) /\ UNCHANGED aside

PagingSpec == Init /\ [][PagingNext]_vars

\* C32: with the filter unchanged and no new submission, awaited loadMore
\* calls reach hasMore = false for every query kind: the page holds photos of
\* the finite store, each one once, and a loadMore that leaves hasMore true
\* has made the page longer. A loadMore called with hasMore = false leaves
\* the page as it is and hasMore false.
C32_LoadMoreTerminates ==
    [][\A o \in inflight :
          (o.kind = "loadMore" /\ last'.id = o.id) =>
             /\ Len(results') <= NumPhotos
             /\ hasMore' => Len(results') > Len(results)
             /\ ~hasMore => (results' = results /\ ~hasMore')]_vars

\* A loadMore called with hasMore = false has resolved over a page of more
\* than one retrieval.
C32_Witness ==
    /\ last.kind = "loadMore" /\ last.outcome = "ok"
    /\ last.resLen > PAGE_SIZE
    /\ last.n = 0
    /\ ~hasMore
    /\ Len(results) = last.resLen

\* The store's full ranked result for the descriptor and filter of the
\* published query: every row that passes the filter, best score first.
FullRanking ==
    LET rows == IF pub.faces # <<>> THEN RankedFaces[pub.faces[1]]
                ELSE RankedImages[ValueOf(pub.emb)]
    IN  SelectSeq(rows, LAMBDA r : PassesFilters(r.id, pub.evs, {}))

SingleDescriptorPage == pub.id # 0 /\ Len(pub.faces) <= 1

\* C33: with each operation awaited and the filter unchanged, the page after
\* a single-descriptor or single-face submit and any number of loadMore
\* calls is the leading segment of the store's full ranked result: no item
\* is skipped, none is repeated.
C33_PageIsLeadingSegment ==
    (inflight = {} /\ SingleDescriptorPage) =>
        /\ Len(results) <= Len(FullRanking)
        /\ results = SubSeq(FullRanking, 1, Len(results))

\* A loadMore has added the rest of a filtered ranking to a first page.
C33_Witness ==
    /\ inflight = {} /\ SingleDescriptorPage
    /\ last.kind = "loadMore" /\ last.outcome = "ok" /\ last.n > 0
    /\ Len(results) = PAGE_SIZE + last.n
    /\ results = FullRanking

\* ------------------------------------------------------------------------
\* Multi-face paging against a store of more than 200 face photos
\* ------------------------------------------------------------------------

\* Calls of loadMore after the submit.
MaxRefetches == 1

\* The per-face limit of the fusion: options.limit * 10.
PerFaceLimit(limit) == limit * 10

\* A store of face photos in three groups; the photos of a group have
\* consecutive ids and the same score for each of the two query faces
\* (hundredths). The anchor photo has id 1.
AnchorScores == {-10, 30}
FillerSizes  == {0, 1, PerFaceLimit(PAGE_SIZE) - 1}
PairSizes    == {0, PAGE_SIZE - 1, 2 * PAGE_SIZE}
PairScores   == {-10, 20}
PairSecond   == {-10, 28}

FaceStores ==
    {<<[first |-> 1,   n |-> 1,  sc |-> <<xf, -10>>],
       [first |-> 2,   n |-> nP, sc |-> <<25, -10>>],
       [first |-> 301, n |-> nQ, sc |-> <<qf, qg>>]>> :
        xf \in AnchorScores, nP \in FillerSizes, nQ \in PairSizes,
        qf \in PairScores, qg \in PairSecond}

\* ORDER BY score DESC over the groups of the store, for query face fi
\* (a tie goes to the lower id).
RECURSIVE GroupsByScoreDesc(_, _, _)
GroupsByScoreDesc(store, S, fi) ==
    IF S = {} THEN <<>>
    ELSE LET best == CHOOSE k \in S : \A j \in S :
                         \/ store[j].sc[fi] < store[k].sc[fi]
                         \/ (store[j].sc[fi] = store[k].sc[fi] /\ j >= k)
             g    == store[best]
         IN  [k \in 1..g.n |-> [id |-> g.first + k - 1, score |-> g.sc[fi], den |-> 1]]
                 \o GroupsByScoreDesc(store, S \ {best}, fi)

\* searchByFaceEmbedding on the store: LIMIT limit OFFSET 0, no filter.
searchByFaceEmbeddingOnStore(store, fi, limit) ==
    LET rows == GroupsByScoreDesc(store, DOMAIN store, fi)
    IN  SubSeq(rows, 1, Min(limit, Len(rows)))

\* searchByMultipleFaceEmbeddings for two faces on the store.
searchByMultipleFaceEmbeddingsOnStore(store, limit) ==
    FuseFaceResults(
        [fi \in 1..2 |-> searchByFaceEmbeddingOnStore(store, fi, PerFaceLimit(limit))],
        limit)

RefetchInit ==
    /\ SessionInit
    /\ \E store \in FaceStores : fusion = [pc |-> "store", store |-> store, calls |-> 0]
    /\ AppInit
    /\ overlay = NoOverlay
    /\ UiInit

\* searchByFaces([f1, f2]), awaited.
searchByFacesOnStore ==
    /\ conn /\ fusion.pc = "store"
    /\ LET hits == searchByMultipleFaceEmbeddingsOnStore(fusion.store, PAGE_SIZE)
       IN  /\ results' = hits
           /\ currentEmbedding' = None
           /\ currentFaceEmbeddings' = Some(<<1, 2>>)
           /\ offset' = PAGE_SIZE
           /\ hasMore' = HasMoreAfter(hits)
           /\ message' = Msg("Found N images with all K faces.", Len(hits), 2)
    /\ isSearching' = FALSE
    /\ fusion' = [fusion EXCEPT !.pc = "page"]
    /\ UNCHANGED <<conn, modelConfig, selectedEvents, inflight, counters, history,
                   appVars, overlay, uiVars>>

\* loadMore on the multi-face page, awaited.
loadMoreOnStore ==
    /\ conn /\ fusion.pc = "page" /\ fusion.calls < MaxRefetches
    /\ currentFaceEmbeddings # None
    /\ LET newLimit == offset + PAGE_SIZE
           hits     == searchByMultipleFaceEmbeddingsOnStore(fusion.store, newLimit)
       IN  /\ results' = ReplacePage(results, hits)
           /\ offset' = newLimit
           /\ hasMore' = HasMoreAfterMultiFace(hits, Len(results), newLimit)
           /\ message' = Msg("Showing N images.", Len(hits), 0)
    /\ isSearching' = FALSE
    /\ fusion' = [fusion EXCEPT !.calls = @ + 1]
    /\ UNCHANGED <<conn, modelConfig, currentEmbedding, currentFaceEmbeddings,
                   selectedEvents, inflight, counters, history,
                   appVars, overlay, uiVars>>

RefetchNext ==
    \/ connReady /\ UNCHANGED aside
    \/ searchByFacesOnStore
    \/ loadMoreOnStore

RefetchSpec == RefetchInit /\ [][RefetchNext]_vars

IdsOf(page) == {page[k].id : k \in 1..Len(page)}

\* C34: after a multi-face loadMore on an unchanged store with unchanged
\* filters, every photo of the page before is in the page, and the page is
\* not shorter.
C34_RefetchKeepsPage ==
    [][(fusion.pc = "page" /\ fusion'.calls > fusion.calls) =>
          /\ IdsOf(results) \subseteq IdsOf(results')
          /\ Len(results') >= Len(results)]_vars

\* ------------------------------------------------------------------------
\* useEncoder under a change of the model configuration
\* ------------------------------------------------------------------------

\* Encoders built in one behaviour.
MaxEncoders == 2

\* The encoder in encoderRef.current is the appLog.textLoads-th one built:
\* each is built with one load of its text model.
CurrentEncoder == appLog.textLoads

\* The config of useEncoder changes to another model: the cleanup of the
\* effect sets cancelled, so the text load of the previous encoder sets no
\* state any more; the effect builds the new encoder, resets the flags and
\* starts the load of its text model. useDuckDB drops the connection. Calls
\* of loadVisionModel that await the previous encoder go on waiting.
changeModel(m) ==
    /\ modelConfig # None /\ modelConfig # Some(m)
    /\ appLog.textLoads < MaxEncoders
    /\ modelConfig' = Some(m)
    /\ conn' = FALSE
    /\ encoder' = [exists |-> TRUE, textReady |-> FALSE, visionReady |-> FALSE,
                   loads |-> {[id |-> 0, part |-> "text"]}]
    /\ encoderHook' = [encoderHook EXCEPT !.isTextReady = FALSE,
                                          !.isVisionReady = FALSE,
                                          !.isLoading = TRUE, !.error = FALSE]
    /\ appLog' = [appLog EXCEPT !.textLoads = @ + 1]
    /\ UNCHANGED <<session, inflight, counters, history, handlers,
                   fusion, overlay, uiVars>>

\* useEncoder.loadVisionModel(): returns at once without an encoder or with
\* isVisionReady; else awaits encoderRef.current.loadVisionModel(), which
\* returns at once with processor and visionModel set and else loads them.
loadVisionModel ==
    /\ appLog.calls < MaxCalls
    /\ encoder.exists /\ ~encoderHook.isVisionReady
    /\ LET c == [id |-> appLog.calls + 1, h |-> "loadVisionModel",
                 pc |-> IF encoder.visionReady THEN "encoderReturned" ELSE "loadVision",
                 gen |-> CurrentEncoder]
       IN  /\ handlers' = handlers \cup {c}
           /\ encoder' = IF encoder.visionReady THEN encoder
                         ELSE [encoder EXCEPT
                                  !.loads = @ \cup {[id |-> c.id, part |-> "vision"]}]
           /\ appLog' = [Called("loadVisionModel") EXCEPT
                            !.visionLoads = IF encoder.visionReady THEN @ ELSE @ + 1]
    /\ UNCHANGED <<sessionVars, encoderHook, fusion, overlay, uiVars>>

\* The awaited encoder.loadVisionModel() of call c returns: the encoder it
\* was called on has its vision model, and setIsVisionReady(true) runs.
loadVisionModelReturned(c) ==
    /\ c.h = "loadVisionModel"
    /\ handlers' = handlers \ {c}
    /\ encoder' = IF c.gen = CurrentEncoder
                  THEN [encoder EXCEPT !.visionReady = TRUE,
                                       !.loads = @ \ {[id |-> c.id, part |-> "vision"]}]
                  ELSE encoder
    /\ encoderHook' = [encoderHook EXCEPT !.isVisionReady = TRUE]
    /\ appLog' = Ended(appLog, "vision ready")
    /\ UNCHANGED <<sessionVars, fusion, overlay, uiVars>>

\* It throws: setIsVisionReady is not reached.
loadVisionModelThrew(c) ==
    /\ c.h = "loadVisionModel" /\ c.pc = "loadVision"
    /\ handlers' = handlers \ {c}
    /\ encoder' = IF c.gen = CurrentEncoder
                  THEN [encoder EXCEPT
                           !.loads = @ \ {[id |-> c.id, part |-> "vision"]}]
                  ELSE encoder
    /\ appLog' = Ended(appLog, "vision load failed")
    /\ UNCHANGED <<sessionVars, encoderHook, fusion, overlay, uiVars>>

EncoderNext ==
    \/ connReady /\ UNCHANGED aside
    \/ \E m \in Models : selectModel(m)
    \/ \E m \in Models \cup OtherModels : changeModel(m)
    \/ textLoadResolved
    \/ textLoadRejected
    \/ loadVisionModel
    \/ \E c \in handlers : loadVisionModelReturned(c)
    \/ \E c \in handlers : loadVisionModelThrew(c)

EncoderSpec == Init /\ [][EncoderNext]_vars

\* C35: isVisionReady is true only if the vision model of the encoder the
\* hook holds is loaded; a loadVisionModel call started on a previous encoder
\* does not mark the new encoder as vision-ready.
C35_VisionReadyOfCurrentEncoder ==
    encoderHook.isVisionReady => (encoder.exists /\ encoder.visionReady)

\* ------------------------------------------------------------------------
\* The preview's face list (App: selectedIndex, faces)
\* ------------------------------------------------------------------------

\* Calls of handleGallerySelect in one behaviour.
MaxSelections == 2

\* The indexes a click on the gallery or the thumbnail strip selects.
PreviewIndexes == {1, 2}
\* The indexes of the faces the face panel passes to the handlers.
FaceIndices == {<<0>>, <<0, 1>>}

\* getFacesForImage(conn, imageId): the rows of data.face_detections of the
\* photo, each with its embedding.
FacesOfPhoto(p) ==
    IF ~HasFace(p) THEN <<>>
    ELSE [k \in 1..(1 + (p % 2)) |-> [photo |-> p, embedding |-> 1 + ((p + k) % 2)]]

NoPreview ==
    [selectedIndex |-> None, faces |-> <<>>, fetches |-> {}, fetched |-> 0,
     pending |-> {}, active |-> None, calls |-> 0, selections |-> 0]

PreviewInit ==
    /\ SessionInit
    /\ fusion = NoFusion
    /\ AppInit
    /\ overlay = NoOverlay
    /\ tagFilter = NoTagFilter
    /\ faceQuery = NoPreview

\* The effect on [conn, selectedIndex, search.results]: the cleanup of the
\* previous run sets its cancelled; then setFaces([]) without a selected
\* photo, else getFacesForImage for the photo at selectedIndex.
FaceEffect(fq, page) ==
    LET stale == {[f EXCEPT !.cancelled = TRUE] : f \in fq.fetches}
    IN  IF ~conn \/ fq.selectedIndex = None \/ ValueOf(fq.selectedIndex) > Len(page)
        THEN [fq EXCEPT !.fetches = stale, !.faces = <<>>]
        ELSE [fq EXCEPT
                 !.fetches = stale \cup {[id |-> fq.fetched + 1,
                                          photo |-> page[ValueOf(fq.selectedIndex)].id,
                                          cancelled |-> FALSE]},
                 !.fetched = @ + 1]

\* handleGallerySelect(index), and onSelect of the thumbnail strip.
handleGallerySelect(index) ==
    /\ faceQuery.selections < MaxSelections
    /\ faceQuery.selectedIndex # Some(index)
    /\ faceQuery' = FaceEffect([faceQuery EXCEPT !.selectedIndex = Some(index),
                                                 !.selections = @ + 1], results)
    /\ UNCHANGED <<sessionVars, fusion, appVars, overlay, tagFilter>>

handleClosePreview ==
    /\ faceQuery.selectedIndex # None
    /\ faceQuery' = FaceEffect([faceQuery EXCEPT !.selectedIndex = None], results)
    /\ UNCHANGED <<sessionVars, fusion, appVars, overlay, tagFilter>>

\* getFacesForImage resolves: setFaces(f) unless cancelled.
fetchFacesResolved(f) ==
    /\ f \in faceQuery.fetches
    /\ faceQuery' = [faceQuery EXCEPT
                        !.fetches = @ \ {f},
                        !.faces = IF f.cancelled THEN @ ELSE FacesOfPhoto(f.photo)]
    /\ UNCHANGED <<sessionVars, fusion, appVars, overlay, tagFilter>>

\* It rejects: setFaces([]) unless cancelled.
fetchFacesRejected(f) ==
    /\ f \in faceQuery.fetches
    /\ faceQuery' = [faceQuery EXCEPT
                        !.fetches = @ \ {f},
                        !.faces = IF f.cancelled THEN @ ELSE <<>>]
    /\ UNCHANGED <<sessionVars, fusion, appVars, overlay, tagFilter>>

\* faceIndices.map((i) => faces[i]).filter((f) => f != null)
FacesAt(faces, faceIndices) ==
    LET there == SelectSeq(faceIndices, LAMBDA i : i + 1 <= Len(faces))
    IN  [k \in 1..Len(there) |-> faces[there[k] + 1]]

\* handleFindSamePersons(faceIndices) and handleAddFacesToQuery(faceIndices)
\* up to the load of the preview image: the early returns, the faces taken
\* from the faces state, the photo taken from search.results[selectedIndex].
PreviewFaceHandler(kind, faceIndices) ==
    LET taken == FacesAt(faceQuery.faces, faceIndices)
        sel   == ValueOf(faceQuery.selectedIndex)
        embs  == [k \in 1..Len(taken) |-> taken[k].embedding]
    IN  /\ faceQuery.calls < MaxFaceCalls
        /\ faceQuery.selectedIndex # None
        /\ Len(taken) # 0
        /\ sel <= Len(results)
        /\ faceQuery' = [faceQuery EXCEPT
               !.calls = @ + 1,
               !.pending = @ \cup
                   {[id |-> faceQuery.calls + 1, kind |-> kind, faces |-> taken,
                     selected |-> results[sel].id,
                     embeddings |-> IF kind = "add" /\ faceQuery.active # None
                                    THEN ValueOf(faceQuery.active) \o embs ELSE embs,
                     canSearch |-> conn, evs |-> selectedEvents]}]
        /\ UNCHANGED <<sessionVars, fusion, appVars, overlay, tagFilter>>

\* After the try/catch around the preview image:
\* setActiveFaceEmbeddings(embeddings), setSelectedIndex(null) and
\* search.searchByFaces(embeddings, search.selectedEvents).
previewFacesSettled(h) ==
    /\ h \in faceQuery.pending
    /\ faceQuery' = FaceEffect([faceQuery EXCEPT !.pending = @ \ {h},
                                                 !.active = Some(h.embeddings),
                                                 !.selectedIndex = None], results)
    /\ IF h.canSearch
       THEN StartSubmit("searchByFaces", "query", "", 0, None, h.embeddings, Some(h.evs))
       ELSE UNCHANGED sessionVars
    /\ UNCHANGED <<fusion, appVars, overlay, tagFilter>>

\* A page is published: search.results changes and the effect runs again.
pagePublished(o) ==
    /\ submitResolved(o)
    /\ faceQuery' = FaceEffect(faceQuery, results')
    /\ UNCHANGED <<fusion, appVars, overlay, tagFilter>>

PreviewNext ==
    \/ connReady /\ UNCHANGED aside
    \/ \E f \in FaceInputs, ev \in EventArgs :
           (NoSubmitYet /\ searchByFace(f, ev)) /\ UNCHANGED aside
    \/ \E o \in inflight : pagePublished(o)
    \/ \E index \in PreviewIndexes : handleGallerySelect(index)
    \/ handleClosePreview
    \/ \E f \in faceQuery.fetches : fetchFacesResolved(f)
    \/ \E f \in faceQuery.fetches : fetchFacesRejected(f)
    \/ \E kind \in {"find", "add"}, fi \in FaceIndices : PreviewFaceHandler(kind, fi)
    \/ \E h \in faceQuery.pending : previewFacesSettled(h)

PreviewSpec == PreviewInit /\ [][PreviewNext]_vars

\* C36: a face query started from the preview uses faces of the photo
\* selected at the call: the faces handleFindSamePersons and
\* handleAddFacesToQuery take are faces of search.results[selectedIndex].
C36_FacesOfSelectedPhoto ==
    [][\A h \in faceQuery'.pending \ faceQuery.pending :
          \A k \in 1..Len(h.faces) : h.faces[k].photo = h.selected]_vars

\* ------------------------------------------------------------------------
\* Further properties of the crop overlay
\* ------------------------------------------------------------------------

\* C38: every crop rectangle the overlay reports lies inside the original
\* image: x >= 0, y >= 0, x + w <= naturalWidth and y + h <= naturalHeight.
C38_CropInsideImage ==
    overlay.cropRect # None =>
        LET crop == ValueOf(overlay.cropRect)
        IN  /\ crop.x >= 0 /\ crop.y >= 0
            /\ crop.x + crop.w <= overlay.natW
            /\ crop.y + crop.h <= overlay.natH

\* ------------------------------------------------------------------------
\* The Preview's crop rectangle under a change of the previewed photo
\* ------------------------------------------------------------------------

\* The image element of the Preview and the first photo shown in it.
PreviewOverlays == {o \in Overlays : o.fit = "fill" /\ o.natW = 16 /\ o.irW = 14}

CropPreviewInit ==
    /\ SessionInit
    /\ fusion = NoFusion
    /\ AppInit
    /\ overlay \in PreviewOverlays
    /\ tagFilter = NoTagFilter
    /\ faceQuery = NoPreview

\* The Preview is rendered: a photo of the page is selected.
PreviewMounted == faceQuery.selectedIndex # None

\* A click on the gallery mounts the Preview; a click on its thumbnail
\* strip (onSelect = setSelectedIndex) changes the photo of the mounted
\* Preview, whose cropRect state and CropOverlay stay as they are. The drag
\* handlers are those of the CropOverlay inside the Preview.
CropPreviewNext ==
    \/ connReady /\ UNCHANGED aside
    \/ \E f \in FaceInputs, ev \in EventArgs :
           (NoSubmitYet /\ searchByFace(f, ev)) /\ UNCHANGED aside
    \/ \E o \in inflight : pagePublished(o)
    \/ \E index \in PreviewIndexes :
           (Len(results) >= index /\ handleGallerySelect(index))
    \/ \E f \in faceQuery.fetches : fetchFacesResolved(f)
    \/ \E x \in ClientCoords, y \in ClientCoords :
           (PreviewMounted /\ handleMouseDown(x, y))
    \/ \E x \in ClientCoords, y \in ClientCoords :
           (PreviewMounted /\ handleMouseMove(x, y))
    \/ (PreviewMounted /\ handleMouseUp)
    \/ (PreviewMounted /\ searchCropped)

CropPreviewSpec == CropPreviewInit /\ [][CropPreviewNext]_vars

\* The thumbnail strip changes the photo of the mounted Preview.
PreviewedPhotoChanges ==
    /\ PreviewMounted
    /\ faceQuery'.selectedIndex # None
    /\ faceQuery'.selectedIndex # faceQuery.selectedIndex

\* C37: the crop rectangle Search Cropped and Copy to Clipboard use was
\* drawn on the photo previewed: once the previewed photo changes through
\* the thumbnail strip, the crop drawn on the previous photo is gone.
C37_CropOfPreviewedPhoto ==
    [][PreviewedPhotoChanges => overlay'.cropRect = None]_vars

\* ------------------------------------------------------------------------
\* useDuckDB under a change of the selected database file
\* ------------------------------------------------------------------------

\* Changes of dbFileName in one behaviour.
MaxDbChanges == 4

\* The dbFileName values of the model configurations.
DbFiles == {"pyconjp_image_search.duckdb", "pyconjp_image_search_clip.duckdb"}

\* The hook before its first effect: no file, no connection, no instance.
\* inits holds the pending initDuckDB promises with the cancelled flag of
\* the effect run that started each; closed holds the instances passed to
\* closeDuckDB; settled records every promise that has settled and whether
\* its effect run had been cleaned up by then.
NoDuckDB == [dbFileName |-> None, conn |-> None, isLoading |-> FALSE,
             error |-> None, instanceRef |-> None, inits |-> {},
             closed |-> {}, settled |-> {}, started |-> 0, changes |-> 0]

DuckDBInit ==
    /\ SessionInit
    /\ fusion = NoDuckDB
    /\ AppInit
    /\ overlay = NoOverlay
    /\ UiInit

\* The cleanup of the previous effect run: cancelled = true.
EffectCleanup(inits) == {[i EXCEPT !.cancelled = TRUE] : i \in inits}

\* dbFileName changes to the file f: the cleanup of the previous run, then
\* the effect sets isLoading, clears error and conn, closes the instance in
\* instanceRef and starts initDuckDB(f).
selectDbFile(f) ==
    /\ fusion.dbFileName # Some(f)
    /\ fusion.changes < MaxDbChanges
    /\ fusion' = [fusion EXCEPT
          !.dbFileName = Some(f),
          !.changes = @ + 1,
          !.started = @ + 1,
          !.isLoading = TRUE,
          !.error = None,
          !.conn = None,
          !.closed = @ \cup fusion.instanceRef,
          !.instanceRef = None,
          !.inits = EffectCleanup(@) \cup
                    {[id |-> fusion.started + 1, file |-> f, cancelled |-> FALSE]}]
    /\ UNCHANGED <<sessionVars, appVars, overlay, uiVars>>

\* dbFileName becomes null: the cleanup of the previous run, then the effect
\* clears conn and isLoading and returns.
clearDbFile ==
    /\ fusion.dbFileName # None
    /\ fusion.changes < MaxDbChanges
    /\ fusion' = [fusion EXCEPT
          !.dbFileName = None,
          !.changes = @ + 1,
          !.conn = None,
          !.isLoading = FALSE,
          !.inits = EffectCleanup(@)]
    /\ UNCHANGED <<sessionVars, appVars, overlay, uiVars>>

initResolvedIgnoringCancelled(i) ==
    /\ fusion' = [fusion EXCEPT
          !.inits = @ \ {i},
          !.settled = @ \cup {[id |-> i.id, outcome |-> "resolved",
                               late |-> i.cancelled]},
          !.instanceRef = Some(i.id),
          !.conn = Some(i.id),
          !.isLoading = FALSE]
    /\ UNCHANGED <<sessionVars, appVars, overlay, uiVars>>

\* initDuckDB of the pending promise i resolves with its instance: published
\* if the effect run is not cancelled, closed otherwise.
initResolved(i) ==
    /\ fusion' = [fusion EXCEPT
          !.inits = @ \ {i},
          !.settled = @ \cup {[id |-> i.id, outcome |-> "resolved",
                               late |-> i.cancelled]},
          !.instanceRef = IF i.cancelled THEN @ ELSE Some(i.id),
          !.conn = IF i.cancelled THEN @ ELSE Some(i.id),
          !.isLoading = IF i.cancelled THEN @ ELSE FALSE,
          !.closed = IF i.cancelled THEN @ \cup {i.id} ELSE @]
    /\ UNCHANGED <<sessionVars, appVars, overlay, uiVars>>

\* initDuckDB of the pending promise i rejects: the message is set as error
\* if the effect run is not cancelled.
initRejected(i) ==
    /\ fusion' = [fusion EXCEPT
          !.inits = @ \ {i},
          !.settled = @ \cup {[id |-> i.id, outcome |-> "rejected",
                               late |-> i.cancelled]},
          !.error = IF i.cancelled THEN @ ELSE Some(i.id),
          !.isLoading = IF i.cancelled THEN @ ELSE FALSE]
    /\ UNCHANGED <<sessionVars, appVars, overlay, uiVars>>

DuckDBNext ==
    \/ \E f \in DbFiles : selectDbFile(f)
    \/ clearDbFile
    \/ \E i \in fusion.inits : initResolved(i)
    \/ \E i \in fusion.inits : initRejected(i)

DuckDBSpec == DuckDBInit /\ [][DuckDBNext]_vars

\* The promises that settle in a step after their effect run was cleaned up.
SettlesLate(i) == i.cancelled /\ i \notin fusion'.inits

\* C39: once dbFileName has changed or been cleared, the settling of an
\* initDuckDB promise started for the previous file leaves conn and error as
\* they are, and an instance it resolves with is passed to closeDuckDB; a
\* published conn is the instance of the last initDuckDB started, for the
\* file selected now.
C39_SupersededInitIsDropped ==
    [][/\ \A i \in fusion.inits :
             SettlesLate(i) =>
                /\ fusion'.conn = fusion.conn /\ fusion'.conn # Some(i.id)
                /\ fusion'.error = fusion.error /\ fusion'.error # Some(i.id)
                /\ [id |-> i.id, outcome |-> "resolved", late |-> TRUE]
                      \in fusion'.settled => i.id \in fusion'.closed
       /\ fusion'.conn # None =>
             /\ fusion'.conn = Some(fusion'.started)
             /\ fusion'.dbFileName # None
       /\ \A s \in fusion'.settled :
             (s.outcome = "resolved" /\ s.late) => s.id \in fusion'.closed]_vars

\* A superseded promise has resolved and its instance is closed, another has
\* rejected, and the connection of the file selected last is published with
\* no error.
C39_Witness ==
    /\ \E s \in fusion.settled :
          s.outcome = "resolved" /\ s.late /\ s.id \in fusion.closed
    /\ \E s \in fusion.settled : s.outcome = "rejected" /\ s.late
    /\ fusion.conn = Some(fusion.started)
    /\ fusion.error = None

=============================================================================
